---- MODULE Spec2Model ----
(***************************************************************************)
(* A model of the tic-tac-toe server of src/backend/main.go: one board     *)
(* record and one rotation queue kept in the state store, the atomic move  *)
(* script, the per-connection message handlers, the delayed rotation task  *)
(* and the publish/subscribe channel of board 0.                           *)
(*                                                                         *)
(* Granularity: one action per command sent to the state store and per     *)
(* critical section of a connection's mutex.  The commands of one handler  *)
(* are separate actions because the store serialises single commands (and  *)
(* the script), never a whole handler.                                     *)
(*                                                                         *)
(* Strings: a stored string is a TLA+ string, except the cells field,      *)
(* which is the sequence of its characters ("X", "O", "_" and ","), so     *)
(* that the script's split and join are computed and not assumed.          *)
(***************************************************************************)
EXTENDS Integers, Sequences, FiniteSets, TLC

\* ------------------------------------------------------------------ bounds
\* number of rotation goroutines that may be alive at the same time
MaxRot == 2
\* capacity of a connection's outbound buffer (256 in the source, scaled)
SendCap == 2
\* capacity of a subscription's delivery buffer (scaled)
InboxCap == 2
\* size of the chat cache window (50 in the source, scaled)
Window == 2
\* number of lines the chat file may grow to
MaxLog == 3

\* ------------------------------------------------------------ input sets
Clients == {"c1", "c2", "c3"}
Names == {"A", "B", "C"}
Symbols == {"X", "O"}
Positions == 0..10
RotIds == 1..MaxRot
Waiting == "Waiting..."
\* chat contents: two short ones and one that makes the line of the entry
\* longer than the 64 KiB a bufio.Scanner takes as one token
Huge == "huge"
Contents == {"a", "b", Huge}

VARIABLES
  cells,        \* board:0 field cells, as its character sequence
  turn,         \* board:0 field turn
  winner,       \* board:0 field winner
  playerXName,  \* board:0 field playerXName ("" while the field is absent)
  playerOName,  \* board:0 field playerOName ("" while the field is absent)
  queue,        \* list board:0:queue
  pc,           \* position of each connection's reader goroutine
  loc,          \* local variables of the handler a reader is running
  send,         \* client.send, the outbound buffer
  closed,       \* client.closed
  name,         \* client.name
  pubsub,       \* client.pubsub # nil
  inbox,        \* messages delivered to a subscription, not yet relayed
  wr,           \* position of each connection's writer goroutine
  rot,          \* the rotation goroutines
  ended,        \* the goroutines of each connection that have returned, of
                \* its relay and its /ws handler
  disk,         \* the lines of chat_history.jsonl
  chat,         \* list board:0:chat (<<>> while the key is absent)
  ttl,          \* key board:0:chat has an expiry set
  last,         \* history field: what the last get_board returned, and
                \* whether the chat key has expired since
  held          \* the message a relay goroutine has received and not yet
                \* passed to safeSend

vars == <<cells, turn, winner, playerXName, playerOName, queue,
          pc, loc, send, closed, name, pubsub, inbox, wr, rot, ended,
          disk, chat, ttl, last, held>>

boardVars == <<cells, turn, winner>>
seatVars == <<playerXName, playerOName>>
clientVars == <<send, closed, name, pubsub, inbox, wr>>
\* what only the actions that follow the handlers of the game change
chatVars == <<disk, chat, ttl, last>>
linkVars == <<ended, held>>
sideVars == <<linkVars, chatVars>>

\* ------------------------------------------------------- the move script
\* '_,_,_,_,_,_,_,_,_'
EmptyCells == <<"_", ",", "_", ",", "_", ",", "_", ",", "_", ",",
                "_", ",", "_", ",", "_", ",", "_">>

RECURSIVE splitFrom(_, _, _, _)
splitFrom(s, i, tok, t) ==
  IF i > Len(s)
    THEN IF tok = <<>> THEN t ELSE Append(t, tok)
    ELSE IF s[i] = ","
      THEN splitFrom(s, i + 1, <<>>, IF tok = <<>> THEN t ELSE Append(t, tok))
      ELSE splitFrom(s, i + 1, Append(tok, s[i]), t)

\* string.gmatch(s, "[^,]+"): the maximal comma-free runs of s, in order
split(s) == splitFrom(s, 1, <<>>, <<>>)

RECURSIVE join(_)
\* table.concat(tbl, ',')
join(tbl) ==
  IF tbl = <<>> THEN <<>>
  ELSE IF Len(tbl) = 1 THEN tbl[1]
  ELSE tbl[1] \o <<",">> \o join(Tail(tbl))

\* a one-character string as a token of split
Tok(sym) == <<sym>>
\* the string a one-character token stands for
Str(tok) == tok[1]

linesNoDiagonal == << <<1, 2, 3>>, <<4, 5, 6>>, <<7, 8, 9>>,
                     <<1, 4, 7>>, <<2, 5, 8>>, <<3, 6, 9>>,
                     <<1, 5, 9>> >>

lines == << <<1, 2, 3>>, <<4, 5, 6>>, <<7, 8, 9>>,
            <<1, 4, 7>>, <<2, 5, 8>>, <<3, 6, 9>>,
            <<1, 5, 9>>, <<3, 5, 7>> >>

\* a ~= '_' and a == b and b == c
LineMatch(cellTbl, line) ==
  /\ cellTbl[line[1]] # Tok("_")
  /\ cellTbl[line[1]] = cellTbl[line[2]]
  /\ cellTbl[line[2]] = cellTbl[line[3]]

RECURSIVE firstLine(_, _)
\* the for loop over lines with its break: the first matching line's symbol
firstLine(cellTbl, i) ==
  IF i > Len(lines) THEN ""
  ELSE IF LineMatch(cellTbl, lines[i]) THEN Str(cellTbl[lines[i][1]])
  ELSE firstLine(cellTbl, i + 1)

\* the script's return on a rejection: { 'error', cells, winner }; the Go
\* side reads a missing fourth element as nextTurn = ""
Rejected(b) ==
  [ret |-> [status |-> "error", cells |-> b.cells, winner |-> b.winner,
            turn |-> ""],
   board |-> b]

GameOverNever(b) == FALSE

\* if winner ~= '' then return error
GameOver(b) == b.winner # ""

WrongTurnNever(b, sym) == FALSE

\* if sym ~= turn then return error
WrongTurn(b, sym) == sym # b.turn

\* if pos < 1 or pos > 9 then return error
OutOfRange(pos) == pos < 1 \/ pos > 9

OccupiedNever(cellTbl, pos) == FALSE

\* if cellTbl[pos] ~= '_' then return error (a missing entry is nil)
Occupied(cellTbl, pos) == pos \notin DOMAIN cellTbl \/ cellTbl[pos] # Tok("_")

IsDrawNever(cellTbl) == FALSE

\* the draw loop: no entry of 1..9 is '_' (a missing entry is nil, not '_')
IsDraw(cellTbl) == \A i \in 1..9 : i \notin DOMAIN cellTbl \/ cellTbl[i] # Tok("_")

ToggleStuck(t) == t

\* if turn == 'X' then turn = 'O' else turn = 'X' end
Toggle(t) == IF t = "X" THEN "O" ELSE "X"

\* The script run on board record b with ARGV = pos, sym: what it returns and
\* the record it leaves.
luaScript(b, pos, sym) ==
  IF GameOver(b) THEN Rejected(b)
  ELSE IF WrongTurn(b, sym) THEN Rejected(b)
  ELSE LET cellTbl == split(b.cells) IN
    IF OutOfRange(pos) THEN Rejected(b)
    ELSE IF Occupied(cellTbl, pos) THEN Rejected(b)
    ELSE LET newTbl == [cellTbl EXCEPT ![pos] = Tok(sym)]
             w == firstLine(newTbl, 1)
             draw == w = "" /\ IsDraw(newTbl)
             newWinner == IF w # "" THEN w ELSE IF draw THEN "draw" ELSE b.winner
             status == IF w # "" THEN "win" ELSE IF draw THEN "draw" ELSE "ok"
             newTurn == IF w # "" \/ draw THEN b.turn ELSE Toggle(b.turn)
         IN [ret |-> [status |-> status, cells |-> join(newTbl),
                      winner |-> newWinner, turn |-> newTurn],
             board |-> [cells |-> join(newTbl), turn |-> newTurn,
                        winner |-> newWinner]]

\* the record the script reads with HGETALL
Board == [cells |-> cells, turn |-> turn, winner |-> winner]


\* ------------------------------------------------- publish and safe send
MoveMadeOwnTurn(pos, sym, ret) ==
  [type |-> "move_made", position |-> pos, symbol |-> sym,
   cells |-> ret.cells, turn |-> sym, winner |-> ret.winner]

\* the messages of the protocol
MoveMade(pos, sym, ret) ==
  [type |-> "move_made", position |-> pos, symbol |-> sym,
   cells |-> ret.cells, turn |-> ret.turn, winner |-> ret.winner]
BoardState(data) == [type |-> "board_state", board |-> data]
SpectatorsUpdate(specs) == [type |-> "spectators_update", spectators |-> specs]
ErrorMsg == [type |-> "error", error |-> "invalid move"]
JoinedMsg == [type |-> "joined", boardId |-> 0]

\* HGETALL board:0
HGetAll ==
  [cells |-> cells, turn |-> turn, winner |-> winner,
   playerXName |-> playerXName, playerOName |-> playerOName]

\* rdb.Publish on channel board:0: the store hands the message to every
\* open subscription, in publication order.  Deliveries wait in inbox until
\* the relay goroutine takes them; a publication is taken up by the model
\* only while every open subscription has room for it.
Publish(m) ==
  /\ \A c \in Clients : pubsub[c] = "open" => Len(inbox[c]) < InboxCap
  /\ inbox' = [c \in Clients |->
                 IF pubsub[c] = "open" THEN Append(inbox[c], m) ELSE inbox[c]]

\* c.mu is held by close() from its first to its last statement
ClosePcs == {"close_specsRead", "close_specsPub", "close_finish"}
MuFree(c) == pc[c] \notin ClosePcs

safeSendWaits(c, b) ==
  /\ closed[c] \/ Len(send[c]) < SendCap
  /\ send' = [send EXCEPT ![c] = IF closed[c] THEN @ ELSE Append(@, b)]

\* client.safeSend: nothing on a closed client, a full buffer drops b
safeSend(c, b) ==
  send' = [send EXCEPT ![c] =
             IF closed[c] THEN @
             ELSE IF Len(@) < SendCap THEN Append(@, b) ELSE @]

\* ----------------------------------------------------- handler locals
NoEntry == [type |-> "", name |-> "", content |-> ""]
NoMsg == [type |-> ""]
NoFetch == [set |-> FALSE, history |-> <<>>, gone |-> FALSE]
NoRet == [status |-> "", cells |-> <<>>, winner |-> "", turn |-> ""]
NoData == [cells |-> <<>>, turn |-> "", winner |-> "",
           playerXName |-> "", playerOName |-> ""]
\* q0 is a history field: the queue as it was when the handler began
\* wrote is a history field too: the append of jsonStr to the file succeeded
NoLoc == [pos |-> 0, sym |-> "", res |-> NoRet, currX |-> "", currO |-> "",
          data |-> NoData, specs |-> <<>>, q0 |-> <<>>,
          jsonStr |-> NoEntry, wrote |-> FALSE, history |-> <<>>, i |-> 0]
NoRot == [pc |-> "free", pX |-> "", pO |-> "", newX |-> "", newO |-> "",
          data |-> NoData, specs |-> <<>>, q0 |-> <<>>]

FreeRots == {r \in RotIds : rot[r].pc = "free"}
\* clients whose accepted game-ending move has not yet started its rotation
PendingEnds == {c \in Clients : pc[c] = "move_reply" /\ loc[c].res.status \in {"win", "draw"}}

MoveEvalDetached(c, pos, sym) ==
  /\ pc[c] = "idle"
  /\ LET r == luaScript(Board, pos, sym) IN
       /\ r.ret.status \in {"win", "draw"}
            => Cardinality(PendingEnds) < Cardinality(FreeRots)
       /\ cells' = r.board.cells
       /\ turn' = r.board.turn
       /\ winner' = r.board.winner
       /\ loc' = [loc EXCEPT ![c] = [@ EXCEPT !.pos = pos, !.sym = sym,
                                                !.res = r.ret]]
  /\ pc' = pc
  /\ UNCHANGED <<seatVars, queue, clientVars, rot, sideVars>>

\* --------------------------------------------------------- move handler
\* case "move", the EvalSha call: the script runs atomically in the store.
\* A move that ends the game is taken up only while one of the MaxRot
\* rotation goroutines of the model is free for it.
MoveEval(c, pos, sym) ==
  /\ pc[c] = "idle"
  /\ LET r == luaScript(Board, pos, sym) IN
       /\ r.ret.status \in {"win", "draw"}
            => Cardinality(PendingEnds) < Cardinality(FreeRots)
       /\ cells' = r.board.cells
       /\ turn' = r.board.turn
       /\ winner' = r.board.winner
       /\ loc' = [loc EXCEPT ![c] = [@ EXCEPT !.pos = pos, !.sym = sym,
                                                !.res = r.ret]]
  /\ pc' = [pc EXCEPT ![c] = "move_reply"]
  /\ UNCHANGED <<seatVars, queue, clientVars, rot, sideVars>>

\* case "move": EvalSha returns an error (the store is unreachable or has
\* lost the script) and the script has not run
MoveEvalErr(c, pos, sym) ==
  /\ pc[c] = "idle"
  /\ loc' = [loc EXCEPT ![c] = [@ EXCEPT !.pos = pos, !.sym = sym]]
  /\ pc' = [pc EXCEPT ![c] = "move_failed"]
  /\ UNCHANGED <<boardVars, seatVars, queue, clientVars, rot, sideVars>>

\* if err != nil { return }
MoveDropped(c) ==
  /\ pc[c] = "move_failed"
  /\ pc' = [pc EXCEPT ![c] = "idle"]
  /\ loc' = [loc EXCEPT ![c] = NoLoc]
  /\ UNCHANGED <<boardVars, seatVars, queue, clientVars, rot, sideVars>>

ReplyErrorPublished(c) ==
  /\ Publish(ErrorMsg)
  /\ UNCHANGED <<send, rot>>

\* if status == "error": sendJSON(c, error); return
ReplyError(c) ==
  /\ safeSend(c, ErrorMsg)
  /\ UNCHANGED <<inbox, rot>>

MoveReplyWinOnly(c) ==
  /\ pc[c] = "move_reply"
  /\ IF loc[c].res.status = "error"
       THEN ReplyError(c)
       ELSE /\ Publish(MoveMade(loc[c].pos, loc[c].sym, loc[c].res))
            /\ IF loc[c].res.winner \in Symbols
                 THEN LET r == CHOOSE x \in FreeRots : \A y \in FreeRots : x <= y
                      IN rot' = [rot EXCEPT ![r] = [NoRot EXCEPT !.pc = "sleep"]]
                 ELSE UNCHANGED rot
            /\ UNCHANGED send
  /\ pc' = [pc EXCEPT ![c] = "idle"]
  /\ loc' = [loc EXCEPT ![c] = NoLoc]
  /\ UNCHANGED <<boardVars, seatVars, queue, closed, name, wr, pubsub, sideVars>>

\* case "move" after the script returned: the error reply, or the
\* publication of move_made and the start of the delayed rotation
MoveReply(c) ==
  /\ pc[c] = "move_reply"
  /\ IF loc[c].res.status = "error"
       THEN ReplyError(c)
       ELSE /\ Publish(MoveMade(loc[c].pos, loc[c].sym, loc[c].res))
            /\ IF loc[c].res.winner # ""
                 THEN LET r == CHOOSE x \in FreeRots : \A y \in FreeRots : x <= y
                      IN rot' = [rot EXCEPT ![r] = [NoRot EXCEPT !.pc = "sleep"]]
                 ELSE UNCHANGED rot
            /\ UNCHANGED send
  /\ pc' = [pc EXCEPT ![c] = "idle"]
  /\ loc' = [loc EXCEPT ![c] = NoLoc]
  /\ UNCHANGED <<boardVars, seatVars, queue, closed, name, wr, pubsub, sideVars>>

\* -------------------------------------------------------- rotatePlayers
RealAlways(p) == TRUE

\* a seat holder that is neither absent nor the sentinel
Real(p) == p # "" /\ p # Waiting

RotSet(r, f) == rot' = [rot EXCEPT ![r] = f]

\* the 3 second sleep is over: pX := HGet playerXName
RotGetX(r) ==
  /\ rot[r].pc = "sleep"
  /\ RotSet(r, [rot[r] EXCEPT !.pc = "getO", !.pX = playerXName, !.q0 = queue])
  /\ UNCHANGED <<boardVars, seatVars, queue, pc, loc, clientVars, sideVars>>

\* pO := HGet playerOName
RotGetO(r) ==
  /\ rot[r].pc = "getO"
  /\ RotSet(r, [rot[r] EXCEPT !.pc = "pushX", !.pO = playerOName])
  /\ UNCHANGED <<boardVars, seatVars, queue, pc, loc, clientVars, sideVars>>

\* if pX is real, RPush queue pX
RotPushX(r) ==
  /\ rot[r].pc = "pushX"
  /\ queue' = IF Real(rot[r].pX) THEN Append(queue, rot[r].pX) ELSE queue
  /\ RotSet(r, [rot[r] EXCEPT !.pc = "pushO"])
  /\ UNCHANGED <<boardVars, seatVars, pc, loc, clientVars, sideVars>>

\* if pO is real, RPush queue pO
RotPushO(r) ==
  /\ rot[r].pc = "pushO"
  /\ queue' = IF Real(rot[r].pO) THEN Append(queue, rot[r].pO) ELSE queue
  /\ RotSet(r, [rot[r] EXCEPT !.pc = "popX"])
  /\ UNCHANGED <<boardVars, seatVars, pc, loc, clientVars, sideVars>>

\* newX := LPop queue, the sentinel on redis.Nil
RotPopX(r) ==
  /\ rot[r].pc = "popX"
  /\ IF queue = <<>>
       THEN /\ RotSet(r, [rot[r] EXCEPT !.pc = "popO", !.newX = Waiting])
            /\ UNCHANGED queue
       ELSE /\ RotSet(r, [rot[r] EXCEPT !.pc = "popO", !.newX = Head(queue)])
            /\ queue' = Tail(queue)
  /\ UNCHANGED <<boardVars, seatVars, pc, loc, clientVars, sideVars>>

\* newO := LPop queue, the sentinel on redis.Nil
RotPopO(r) ==
  /\ rot[r].pc = "popO"
  /\ IF queue = <<>>
       THEN /\ RotSet(r, [rot[r] EXCEPT !.pc = "setSeats", !.newO = Waiting])
            /\ UNCHANGED queue
       ELSE /\ RotSet(r, [rot[r] EXCEPT !.pc = "setSeats", !.newO = Head(queue)])
            /\ queue' = Tail(queue)
  /\ UNCHANGED <<boardVars, seatVars, pc, loc, clientVars, sideVars>>

RotSetSeatsResets(r) ==
  /\ rot[r].pc = "setSeats"
  /\ playerXName' = rot[r].newX
  /\ playerOName' = rot[r].newO
  /\ cells' = EmptyCells /\ turn' = "X" /\ winner' = ""
  /\ RotSet(r, [rot[r] EXCEPT !.pc = "reset"])
  /\ UNCHANGED <<queue, pc, loc, clientVars, sideVars>>

\* HSet playerXName newX playerOName newO
RotSetSeats(r) ==
  /\ rot[r].pc = "setSeats"
  /\ playerXName' = rot[r].newX
  /\ playerOName' = rot[r].newO
  /\ RotSet(r, [rot[r] EXCEPT !.pc = "reset"])
  /\ UNCHANGED <<boardVars, queue, pc, loc, clientVars, sideVars>>

\* resetBoardState: HSet cells, turn, winner to the initial values
resetBoardStateGridOnly ==
  /\ cells' = EmptyCells
  /\ turn' = turn
  /\ winner' = ""

resetBoardState ==
  /\ cells' = EmptyCells
  /\ turn' = "X"
  /\ winner' = ""

RotReset(r) ==
  /\ rot[r].pc = "reset"
  /\ resetBoardState
  /\ RotSet(r, [rot[r] EXCEPT !.pc = "snapshot"])
  /\ UNCHANGED <<seatVars, queue, pc, loc, clientVars, sideVars>>

\* data := HGetAll
RotSnapshot(r) ==
  /\ rot[r].pc = "snapshot"
  /\ RotSet(r, [rot[r] EXCEPT !.pc = "publish", !.data = HGetAll])
  /\ UNCHANGED <<boardVars, seatVars, queue, pc, loc, clientVars, sideVars>>

\* Publish board_state
RotPublish(r) ==
  /\ rot[r].pc = "publish"
  /\ Publish(BoardState(rot[r].data))
  /\ RotSet(r, [rot[r] EXCEPT !.pc = "specsRead"])
  /\ UNCHANGED <<boardVars, seatVars, queue, pc, loc, send, closed, name, wr, pubsub, sideVars>>

RotSpecsReadStale(r) ==
  /\ rot[r].pc = "specsRead"
  /\ RotSet(r, [rot[r] EXCEPT !.pc = "specsPub", !.specs = rot[r].q0])
  /\ UNCHANGED <<boardVars, seatVars, queue, pc, loc, clientVars, sideVars>>

\* broadcastSpectators: specs := LRange queue 0 -1
RotSpecsRead(r) ==
  /\ rot[r].pc = "specsRead"
  /\ RotSet(r, [rot[r] EXCEPT !.pc = "specsPub", !.specs = queue])
  /\ UNCHANGED <<boardVars, seatVars, queue, pc, loc, clientVars, sideVars>>

\* broadcastSpectators: Publish spectators_update; the goroutine ends
RotSpecsPub(r) ==
  /\ rot[r].pc = "specsPub"
  /\ Publish(SpectatorsUpdate(rot[r].specs))
  /\ RotSet(r, NoRot)
  /\ UNCHANGED <<boardVars, seatVars, queue, pc, loc, send, closed, name, wr, pubsub, sideVars>>

RotStep(r) ==
  \/ RotGetX(r) \/ RotGetO(r) \/ RotPushX(r) \/ RotPushO(r)
  \/ RotPopX(r) \/ RotPopO(r) \/ RotSetSeats(r) \/ RotReset(r)
  \/ RotSnapshot(r) \/ RotPublish(r) \/ RotSpecsRead(r) \/ RotSpecsPub(r)


\* --------------------------------------------------------- join handler
Goto(c, l) == pc' = [pc EXCEPT ![c] = l]
LocSet(c, f) == loc' = [loc EXCEPT ![c] = f]

\* case "join": c.name := msg.Name; currX := HGet playerXName
JoinGetX(c, n) ==
  /\ pc[c] = "idle"
  /\ name' = [name EXCEPT ![c] = n]
  /\ LocSet(c, [loc[c] EXCEPT !.currX = playerXName, !.q0 = queue])
  /\ Goto(c, "join_getO")
  /\ UNCHANGED <<boardVars, seatVars, queue, send, closed, pubsub, inbox, wr, rot,
                 sideVars>>

\* currO := HGet playerOName
JoinGetO(c) ==
  /\ pc[c] = "join_getO"
  /\ LocSet(c, [loc[c] EXCEPT !.currO = playerOName])
  /\ Goto(c, "join_assign")
  /\ UNCHANGED <<boardVars, seatVars, queue, clientVars, rot, sideVars>>

VacantOnlyAbsent(p) == p = ""

\* a seat value that Join treats as vacant
Vacant(p) == p = "" \/ p = Waiting

\* HSet playerXName, else HSet playerOName, else RPush queue
JoinAssign(c) ==
  /\ pc[c] = "join_assign"
  /\ IF Vacant(loc[c].currX)
       THEN /\ playerXName' = name[c]
            /\ UNCHANGED <<playerOName, queue>>
       ELSE IF Vacant(loc[c].currO)
         THEN /\ playerOName' = name[c]
              /\ UNCHANGED <<playerXName, queue>>
         ELSE /\ queue' = Append(queue, name[c])
              /\ UNCHANGED <<playerXName, playerOName>>
  /\ Goto(c, "join_notify")
  /\ UNCHANGED <<boardVars, loc, clientVars, rot, sideVars>>

subscribeToBoardAgain(c, b) ==
  pubsub' = [pubsub EXCEPT ![c] = IF b = 0 THEN "open" ELSE "other"]

\* subscribeToBoard: a no-op once c.pubsub is set; else a subscription to
\* the channel of board b ("open" for board 0, whose channel is modelled,
\* "other" for a board whose channel carries nothing here) and its relay
subscribeToBoard(c, b) ==
  pubsub' = [pubsub EXCEPT ![c] =
               IF @ = "nil" THEN (IF b = 0 THEN "open" ELSE "other") ELSE @]

\* sendJSON joined; subscribeToBoard
JoinNotify(c) ==
  /\ pc[c] = "join_notify"
  /\ safeSend(c, JoinedMsg)
  /\ subscribeToBoard(c, 0)
  /\ Goto(c, "join_snapshot")
  /\ UNCHANGED <<boardVars, seatVars, queue, loc, closed, name, wr, inbox, rot, sideVars>>

\* data := HGetAll
JoinSnapshot(c) ==
  /\ pc[c] = "join_snapshot"
  /\ LocSet(c, [loc[c] EXCEPT !.data = HGetAll])
  /\ Goto(c, "join_publish")
  /\ UNCHANGED <<boardVars, seatVars, queue, clientVars, rot, sideVars>>

\* Publish board_state
JoinPublish(c) ==
  /\ pc[c] = "join_publish"
  /\ Publish(BoardState(loc[c].data))
  /\ Goto(c, "join_specsRead")
  /\ UNCHANGED <<boardVars, seatVars, queue, loc, send, closed, name, wr, pubsub, rot, sideVars>>

\* broadcastSpectators, called by join and by close: specs := LRange queue
SpecsRead(c) ==
  /\ pc[c] \in {"join_specsRead", "close_specsRead"}
  /\ LocSet(c, [loc[c] EXCEPT !.specs = queue])
  /\ Goto(c, IF pc[c] = "join_specsRead" THEN "join_specsPub" ELSE "close_specsPub")
  /\ UNCHANGED <<boardVars, seatVars, queue, clientVars, rot, sideVars>>

SpecsPubDirect(c) ==
  /\ pc[c] \in {"join_specsPub", "close_specsPub"}
  /\ safeSend(c, SpectatorsUpdate(loc[c].specs))
  /\ Goto(c, IF pc[c] = "join_specsPub" THEN "idle" ELSE "close_finish")
  /\ LocSet(c, NoLoc)
  /\ UNCHANGED <<boardVars, seatVars, queue, inbox, closed, name, wr, pubsub, rot, sideVars>>

\* broadcastSpectators: Publish spectators_update, then back to the caller
SpecsPub(c) ==
  /\ pc[c] \in {"join_specsPub", "close_specsPub"}
  /\ Publish(SpectatorsUpdate(loc[c].specs))
  /\ Goto(c, IF pc[c] = "join_specsPub" THEN "idle" ELSE "close_finish")
  /\ LocSet(c, NoLoc)
  /\ UNCHANGED <<boardVars, seatVars, queue, send, closed, name, wr, pubsub, rot, sideVars>>

\* ---------------------------------------------------------- client.close
LRemNothing(q, n) == q

\* LRem queue 0 name: every occurrence of n removed
LRem(q, n) == SelectSeq(q, LAMBDA x : x # n)

CloseBeginUnmarked(c) ==
  /\ pc[c] = "idle"
  /\ IF closed[c]
       THEN /\ Goto(c, "done")
            /\ UNCHANGED <<closed, queue>>
       ELSE /\ closed' = closed
            /\ IF name[c] # ""
                 THEN /\ queue' = LRem(queue, name[c])
                      /\ Goto(c, "close_specsRead")
                 ELSE /\ UNCHANGED queue
                      /\ Goto(c, "close_finish")
  /\ UNCHANGED <<boardVars, seatVars, loc, send, name, wr, pubsub, inbox, rot, sideVars>>

\* ReadJSON failed (a malformed message, the peer gone, or the link closed
\* by the writer): close() takes c.mu; on a closed client it returns at
\* once, else it sets closed and, for a named client, removes the name from
\* the queue
CloseBegin(c) ==
  /\ pc[c] = "idle"
  /\ IF closed[c]
       THEN /\ Goto(c, "done")
            /\ UNCHANGED <<closed, queue>>
       ELSE /\ closed' = [closed EXCEPT ![c] = TRUE]
            /\ IF name[c] # ""
                 THEN /\ queue' = LRem(queue, name[c])
                      /\ Goto(c, "close_specsRead")
                 ELSE /\ UNCHANGED queue
                      /\ Goto(c, "close_finish")
  /\ UNCHANGED <<boardVars, seatVars, loc, send, name, wr, pubsub, inbox, rot, sideVars>>

CloseFinishAll(c) ==
  /\ pc[c] = "close_finish"
  /\ pubsub' = [d \in Clients |-> IF pubsub[d] = "nil" THEN "nil" ELSE "closed"]
  /\ inbox' = [inbox EXCEPT ![c] = <<>>]
  /\ Goto(c, "done")
  /\ UNCHANGED <<boardVars, seatVars, queue, loc, send, closed, name, wr, rot, sideVars>>

\* close(c.done); c.pubsub.Close(); close(c.send); c.conn.Close(): the
\* reader returns
CloseFinish(c) ==
  /\ pc[c] = "close_finish"
  /\ pubsub' = [pubsub EXCEPT ![c] = IF @ = "nil" THEN @ ELSE "closed"]
  /\ inbox' = [inbox EXCEPT ![c] = <<>>]
  /\ Goto(c, "done")
  /\ UNCHANGED <<boardVars, seatVars, queue, loc, send, closed, name, wr, rot, sideVars>>

\* ------------------------------------------------------ writer and relay
\* c.conn is closed: by the writer when it returned, or by close()
ConnClosed(c) == wr[c] = "exit" \/ pc[c] = "done"

WriterNewest(c) ==
  /\ wr[c] = "run"
  /\ ~ConnClosed(c)
  /\ send[c] # <<>>
  /\ send' = [send EXCEPT ![c] = SubSeq(@, 1, Len(@) - 1)]
  /\ UNCHANGED <<boardVars, seatVars, queue, pc, loc, closed, name, wr,
                 pubsub, inbox, rot, sideVars>>

\* client.writer: the oldest message of c.send is received and written to
\* the link
Writer(c) ==
  /\ wr[c] = "run"
  /\ ~ConnClosed(c)
  /\ send[c] # <<>>
  /\ send' = [send EXCEPT ![c] = Tail(@)]
  /\ UNCHANGED <<boardVars, seatVars, queue, pc, loc, closed, name, wr,
                 pubsub, inbox, rot, sideVars>>

\* client.writer: WriteMessage returns an error (the deadline passed, the
\* peer is gone or the link is closed); the message is lost, the writer
\* returns and its deferred call closes the link
WriterFail(c) ==
  /\ wr[c] = "run"
  /\ send[c] # <<>>
  /\ send' = [send EXCEPT ![c] = Tail(@)]
  /\ wr' = [wr EXCEPT ![c] = "exit"]
  /\ UNCHANGED <<boardVars, seatVars, queue, pc, loc, closed, name,
                 pubsub, inbox, rot, sideVars>>

WriterExitOnFailure(c) ==
  /\ wr[c] = "run"
  /\ pc[c] = "done"
  /\ send[c] # <<>>
  /\ wr' = [wr EXCEPT ![c] = "exit"]
  /\ UNCHANGED <<boardVars, seatVars, queue, pc, loc, send, closed, name,
                 pubsub, inbox, rot, sideVars>>

\* client.writer: c.send is closed and empty, the range loop ends
WriterExit(c) ==
  /\ wr[c] = "run"
  /\ pc[c] = "done"
  /\ send[c] = <<>>
  /\ wr' = [wr EXCEPT ![c] = "exit"]
  /\ UNCHANGED <<boardVars, seatVars, queue, pc, loc, send, closed, name,
                 pubsub, inbox, rot, sideVars>>

RelayNewest(c) ==
  /\ pubsub[c] = "open"
  /\ inbox[c] # <<>>
  /\ MuFree(c)
  /\ safeSend(c, inbox[c][Len(inbox[c])])
  /\ inbox' = [inbox EXCEPT ![c] = SubSeq(@, 1, Len(@) - 1)]
  /\ UNCHANGED <<boardVars, seatVars, queue, pc, loc, closed, name, wr,
                 pubsub, rot, sideVars>>

\* the relay goroutine of subscribeToBoard: c.safeSend(m.Payload)
Relay(c) ==
  /\ pubsub[c] = "open"
  /\ inbox[c] # <<>>
  /\ MuFree(c)
  /\ safeSend(c, Head(inbox[c]))
  /\ inbox' = [inbox EXCEPT ![c] = Tail(@)]
  /\ UNCHANGED <<boardVars, seatVars, queue, pc, loc, closed, name, wr,
                 pubsub, rot, sideVars>>

\* the relay goroutine, step by step: m := <-ch
RelayTake(c) ==
  /\ pubsub[c] = "open"
  /\ inbox[c] # <<>>
  /\ held[c] = NoMsg
  /\ held' = [held EXCEPT ![c] = Head(inbox[c])]
  /\ inbox' = [inbox EXCEPT ![c] = Tail(@)]
  /\ UNCHANGED <<boardVars, seatVars, queue, pc, loc, send, closed, name, wr,
                 pubsub, rot, ended, chatVars>>

RelayGiveUnchecked(c) ==
  /\ held[c] # NoMsg
  /\ MuFree(c)
  /\ send' = [send EXCEPT ![c] = IF Len(@) < SendCap THEN Append(@, held[c]) ELSE @]
  /\ held' = [held EXCEPT ![c] = NoMsg]
  /\ UNCHANGED <<boardVars, seatVars, queue, pc, loc, closed, name, wr,
                 pubsub, inbox, rot, ended, chatVars>>

\* the relay goroutine, step by step: c.safeSend(m.Payload), which waits
\* for c.mu
RelayGive(c) ==
  /\ held[c] # NoMsg
  /\ MuFree(c)
  /\ safeSend(c, held[c])
  /\ held' = [held EXCEPT ![c] = NoMsg]
  /\ UNCHANGED <<boardVars, seatVars, queue, pc, loc, closed, name, wr,
                 pubsub, inbox, rot, ended, chatVars>>

\* the relay goroutine returns: its select finds the subscription's channel
\* closed or c.done closed, both of which close() has done
RelayExit(c) ==
  /\ pubsub[c] = "closed"
  /\ "relay" \notin ended[c]
  /\ ended' = [ended EXCEPT ![c] = @ \cup {"relay"}]
  /\ UNCHANGED <<boardVars, seatVars, queue, pc, loc, clientVars, rot, held, chatVars>>

\* the /ws handler returns from <-c.done, which close() has closed
HandlerExit(c) ==
  /\ pc[c] = "done"
  /\ "handler" \notin ended[c]
  /\ ended' = [ended EXCEPT ![c] = @ \cup {"handler"}]
  /\ UNCHANGED <<boardVars, seatVars, queue, pc, loc, clientVars, rot, held, chatVars>>

\* ----------------------------------------------------------------- Init
Init ==
  /\ cells = EmptyCells
  /\ turn = "X"
  /\ winner = ""
  /\ playerXName = ""
  /\ playerOName = ""
  /\ queue = <<>>
  /\ pc = [c \in Clients |-> "idle"]
  /\ loc = [c \in Clients |-> NoLoc]
  /\ send = [c \in Clients |-> <<>>]
  /\ closed = [c \in Clients |-> FALSE]
  /\ name = [c \in Clients |-> ""]
  /\ pubsub = [c \in Clients |-> "nil"]
  /\ inbox = [c \in Clients |-> <<>>]
  /\ wr = [c \in Clients |-> "run"]
  /\ rot = [r \in RotIds |-> NoRot]
  /\ ended = [c \in Clients |-> {}]
  /\ disk = <<>>
  /\ chat = <<>>
  /\ ttl = FALSE
  /\ last = NoFetch
  /\ held = [c \in Clients |-> NoMsg]


\* case "subscribe": subscribeToBoard(c, msg.BoardID)
Subscribe(c, b) ==
  /\ pc[c] = "idle"
  /\ subscribeToBoard(c, b)
  /\ UNCHANGED <<boardVars, seatVars, queue, pc, loc, send, closed, name, wr, inbox, rot, sideVars>>

\* ------------------------------------------------------------------ chat
ChatMsg(n, x) == [type |-> "chat", name |-> n, content |-> x]
ChatHistory(h) == [type |-> "chat_history", history |-> h]

\* the last n elements of s (LTRIM key -n -1; lines[len(lines)-limit:])
LastN(s, n) == IF Len(s) > n THEN SubSeq(s, Len(s) - n + 1, Len(s)) ELSE s

\* the scanner loop of loadFromDisk: it stops at the first line that is
\* too long for one token, and the error is not looked at
RECURSIVE Scan(_, _)
Scan(file, i) ==
  IF i > Len(file) \/ file[i].content = Huge THEN <<>>
  ELSE <<file[i]>> \o Scan(file, i + 1)

\* loadFromDisk(limit)
loadFromDisk(limit) == LastN(Scan(disk, 1), limit)

\* case "chat": writeToDisk(jsonStr) appends the line to the file
ChatWrite(c, n, x) ==
  /\ pc[c] = "idle"
  /\ Len(disk) < MaxLog
  /\ disk' = Append(disk, ChatMsg(n, x))
  /\ LocSet(c, [loc[c] EXCEPT !.jsonStr = ChatMsg(n, x), !.wrote = TRUE])
  /\ Goto(c, "chat_push")
  /\ last' = NoFetch
  /\ UNCHANGED <<boardVars, seatVars, queue, clientVars, rot, linkVars, chat, ttl>>

\* case "chat": OpenFile or WriteString returns an error; writeToDisk logs
\* it and returns nothing to its caller
ChatWriteErr(c, n, x) ==
  /\ pc[c] = "idle"
  /\ LocSet(c, [loc[c] EXCEPT !.jsonStr = ChatMsg(n, x), !.wrote = FALSE])
  /\ Goto(c, "chat_push")
  /\ last' = NoFetch
  /\ UNCHANGED <<boardVars, seatVars, queue, clientVars, rot, linkVars, disk, chat, ttl>>

\* RPush chatKey jsonStr: a key that was absent is created without expiry
ChatPush(c) ==
  /\ pc[c] = "chat_push"
  /\ chat' = Append(chat, loc[c].jsonStr)
  /\ Goto(c, "chat_trim")
  /\ UNCHANGED <<boardVars, seatVars, queue, loc, clientVars, rot, linkVars, disk, ttl, last>>

\* LTrim chatKey -50 -1
ChatTrim(c) ==
  /\ pc[c] = "chat_trim"
  /\ chat' = LastN(chat, Window)
  /\ Goto(c, "chat_expire")
  /\ UNCHANGED <<boardVars, seatVars, queue, loc, clientVars, rot, linkVars, disk, ttl, last>>

\* Expire chatKey 1h: nothing on an absent key
ChatExpire(c) ==
  /\ pc[c] = "chat_expire"
  /\ ttl' = (chat # <<>>)
  /\ Goto(c, "chat_publish")
  /\ UNCHANGED <<boardVars, seatVars, queue, loc, clientVars, rot, linkVars, disk, chat, last>>

\* Publish jsonBytes on the board channel
ChatPublish(c) ==
  /\ pc[c] = "chat_publish"
  /\ Publish(loc[c].jsonStr)
  /\ Goto(c, "idle")
  /\ LocSet(c, NoLoc)
  /\ UNCHANGED <<boardVars, seatVars, queue, send, closed, name, wr, pubsub, rot,
                 sideVars>>

\* the store removes the chat key when its expiry time has come
Expired ==
  /\ ttl
  /\ chat' = <<>>
  /\ ttl' = FALSE
  /\ last' = IF last.set /\ \A c \in Clients : pc[c] \in {"idle", "done"}
               THEN [last EXCEPT !.gone = TRUE] ELSE NoFetch
  /\ UNCHANGED <<boardVars, seatVars, queue, pc, loc, clientVars, rot, linkVars, disk>>

GetBoardResets(c) ==
  /\ pc[c] = "idle"
  /\ safeSend(c, BoardState(HGetAll))
  /\ resetBoardState
  /\ Goto(c, "get_specs")
  /\ UNCHANGED <<seatVars, queue, loc, closed, name, wr, pubsub, inbox,
                 rot, sideVars>>

\* case "get_board": HGetAll, sendJSON board_state
GetBoard(c) ==
  /\ pc[c] = "idle"
  /\ safeSend(c, BoardState(HGetAll))
  /\ Goto(c, "get_specs")
  /\ UNCHANGED <<boardVars, seatVars, queue, loc, closed, name, wr, pubsub, inbox,
                 rot, sideVars>>

\* LRange queue, sendJSON spectators_update
GetSpecs(c) ==
  /\ pc[c] = "get_specs"
  /\ safeSend(c, SpectatorsUpdate(queue))
  /\ Goto(c, "get_exists")
  /\ UNCHANGED <<boardVars, seatVars, queue, loc, closed, name, wr, pubsub, inbox,
                 rot, sideVars>>

\* exists := Exists chatKey
GetExists(c) ==
  /\ pc[c] = "get_exists"
  /\ Goto(c, IF chat # <<>> THEN "get_hit" ELSE "get_miss")
  /\ UNCHANGED <<boardVars, seatVars, queue, loc, clientVars, rot, sideVars>>

\* cache hit: history := LRange chatKey 0 -1
GetHit(c) ==
  /\ pc[c] = "get_hit"
  /\ LocSet(c, [loc[c] EXCEPT !.history = chat])
  /\ Goto(c, "get_reply")
  /\ UNCHANGED <<boardVars, seatVars, queue, clientVars, rot, sideVars>>

\* cache miss: history := loadFromDisk(50)
GetMiss(c) ==
  /\ pc[c] = "get_miss"
  /\ LocSet(c, [loc[c] EXCEPT !.history = loadFromDisk(Window), !.i = 1])
  /\ Goto(c, IF loadFromDisk(Window) # <<>> THEN "get_push" ELSE "get_reply")
  /\ UNCHANGED <<boardVars, seatVars, queue, clientVars, rot, sideVars>>

\* one turn of the loop: RPush chatKey jsonMsg
GetPush(c) ==
  /\ pc[c] = "get_push"
  /\ chat' = Append(chat, loc[c].history[loc[c].i])
  /\ LocSet(c, [loc[c] EXCEPT !.i = @ + 1])
  /\ Goto(c, IF loc[c].i < Len(loc[c].history) THEN "get_push" ELSE "get_expire")
  /\ UNCHANGED <<boardVars, seatVars, queue, clientVars, rot, linkVars, disk, ttl, last>>

\* Expire chatKey 1h
GetExpire(c) ==
  /\ pc[c] = "get_expire"
  /\ ttl' = (chat # <<>>)
  /\ Goto(c, "get_reply")
  /\ UNCHANGED <<boardVars, seatVars, queue, loc, clientVars, rot, linkVars, disk, chat, last>>

\* sendJSON chat_history
GetReply(c) ==
  /\ pc[c] = "get_reply"
  /\ safeSend(c, ChatHistory(loc[c].history))
  /\ last' = [set |-> TRUE, history |-> loc[c].history, gone |-> FALSE]
  /\ Goto(c, "idle")
  /\ LocSet(c, NoLoc)
  /\ UNCHANGED <<boardVars, seatVars, queue, closed, name, wr, pubsub, inbox, rot,
                 linkVars, disk, chat, ttl>>

\* the steps of the chat and get_board handlers that follow the first
ChatStep(c) ==
  \/ ChatPush(c) \/ ChatTrim(c) \/ ChatExpire(c) \/ ChatPublish(c)
  \/ GetSpecs(c) \/ GetExists(c) \/ GetHit(c) \/ GetMiss(c)
  \/ GetPush(c) \/ GetExpire(c) \/ GetReply(c)

\* ------------------------------------------------------- specifications
ClientBusy(c) == pc[c] \notin {"idle", "done"}
RotBusy(r) == rot[r].pc \notin {"free", "sleep"}
\* nothing but the handler of c is in progress
AloneClient(c) ==
  /\ \A d \in Clients \ {c} : ~ClientBusy(d)
  /\ \A r \in RotIds : ~RotBusy(r)
\* nothing but rotation r is in progress
AloneRot(r) ==
  /\ \A c \in Clients : ~ClientBusy(c)
  /\ \A q \in RotIds \ {r} : ~RotBusy(q)

\* no delivery is waiting in a subscription or in an outbound buffer
Drained == \A c \in Clients : inbox[c] = <<>> /\ send[c] = <<>>
\* a new handler of c may start: nothing else is in progress
Turn(c) == AloneClient(c) /\ Drained

\* One connection plays whole games; each handler and each rotation runs
\* from its first to its last step without another one in between, and the
\* reply to a move is written to the link before the next move is read.
NextGame ==
  \/ \E pos \in Positions, sym \in Symbols :
       Turn("c1") /\ MoveEval("c1", pos, sym)
  \/ MoveReply("c1")
  \/ Writer("c1")
  \/ \E r \in RotIds : AloneRot(r) /\ RotStep(r)

SpecGame == Init /\ [][NextGame]_vars


\* the positions offered where the whole game tree is not wanted: one
\* position below the grid and the first two cells
PosFew == 0..2
Movers == {"c1", "c2"}
Observer == "c3"

\* Two connections send moves at the same time and a third one watches the
\* channel; no rotation runs yet (the 3 seconds have not passed).
NextMoves ==
  \/ \E c \in Movers, pos \in PosFew, sym \in Symbols : MoveEval(c, pos, sym)
  \/ \E c \in Movers : MoveReply(c)
  \/ \E c \in Clients : Writer(c)
  \/ Subscribe(Observer, 0)
  \/ Relay(Observer)

SpecMoves == Init /\ [][NextMoves]_vars

\* the moves of a short game: X 1, O 4, X 2, O 5, X 3 ends it
ShortGame == {<<1, "X">>, <<4, "O">>, <<2, "X">>, <<5, "O">>, <<3, "X">>}
\* the names a connection may join with: two connections may pick the same
NameChoices == [c \in Clients |->
                  IF c = "c1" THEN {"A"} ELSE IF c = "c2" THEN {"A", "B"} ELSE {"C"}]
\* Connections join, one of them plays short games, connections close and
\* rotations run, one operation at a time: a handler or a rotation starts
\* only when every other one has finished and all deliveries are made.
NextSeq ==
  \/ \E c \in Clients : \E n \in NameChoices[c] :
       Turn(c) /\ name[c] = "" /\ JoinGetX(c, n)
  \/ \E c \in Clients : JoinGetO(c) \/ JoinAssign(c) \/ JoinNotify(c)
  \/ \E c \in Clients : JoinSnapshot(c) \/ JoinPublish(c)
  \/ \E c \in Clients : SpecsRead(c) \/ SpecsPub(c)
  \/ \E m \in ShortGame : Turn("c1") /\ MoveEval("c1", m[1], m[2])
  \/ MoveReply("c1")
  \/ \E c \in Clients : Turn(c) /\ CloseBegin(c)
  \/ \E c \in Clients : CloseFinish(c)
  \/ \E r \in RotIds : AloneRot(r) /\ (rot[r].pc = "sleep" => Drained) /\ RotStep(r)
  \/ \E c \in Clients : Writer(c) \/ Relay(c)

SpecSeq == Init /\ [][NextSeq]_vars

\* the name each connection joins with where names are to be distinct
OwnName == [c \in Clients |-> IF c = "c1" THEN "A" ELSE IF c = "c2" THEN "B" ELSE "C"]
\* the connections that join in the race; c1 only plays
Joiners == {"c2", "c3"}
\* no handler of another connection is in progress
OnlyClient(c) == \A d \in Clients \ {c} : ~ClientBusy(d)
\* no step of another rotation has been taken and not finished
OnlyRot(r) == \A q \in RotIds \ {r} : ~RotBusy(q)
\* the connections served before c when a publication is delivered
Earlier == [c \in Clients |->
              IF c = "c1" THEN {} ELSE IF c = "c2" THEN {"c1"} ELSE {"c1", "c2"}]
InOrder(c) == \A d \in Earlier[c] : inbox[d] = <<>> /\ send[d] = <<>>

\* The rotation goroutine runs beside the handlers: two connections join
\* under distinct names and a third one plays short games, one handler at
\* a time and one rotation at a time, while the steps of the rotation fall
\* anywhere between the steps of the handlers.  A publication is delivered
\* and written out, one connection after the other, before the next
\* command reaches the store.
NextRace ==
  \/ \E c \in Joiners :
       Drained /\ OnlyClient(c) /\ name[c] = "" /\ JoinGetX(c, OwnName[c])
  \/ \E c \in Joiners : Drained /\ (JoinGetO(c) \/ JoinAssign(c) \/ JoinNotify(c))
  \/ \E c \in Joiners : Drained /\ (JoinSnapshot(c) \/ JoinPublish(c))
  \/ \E c \in Joiners : Drained /\ (SpecsRead(c) \/ SpecsPub(c))
  \/ \E m \in ShortGame :
       Drained /\ OnlyClient("c1") /\ MoveEval("c1", m[1], m[2])
  \/ Drained /\ MoveReply("c1")
  \/ \E r \in RotIds : Drained /\ OnlyRot(r) /\ RotStep(r)
  \/ \E c \in Clients : InOrder(c) /\ (Writer(c) \/ Relay(c))

SpecRace == Init /\ [][NextRace]_vars

\* the moves of a game that fills the grid without a line:
\* X 1, O 2, X 3, O 5, X 4, O 6, X 8, O 7, X 9
DrawGame == {<<1, "X">>, <<2, "O">>, <<3, "X">>, <<5, "O">>, <<4, "X">>,
             <<6, "O">>, <<8, "X">>, <<7, "O">>, <<9, "X">>}

\* One connection plays games to a win or to a draw, one move at a time;
\* the rotation goroutines run on their own.
NextEnd ==
  \/ \E m \in ShortGame \cup DrawGame : Turn("c1") /\ MoveEval("c1", m[1], m[2])
  \/ MoveReply("c1")
  \/ Writer("c1")
  \/ \E r \in RotIds : RotStep(r)

\* A reader goroutine that has read a message runs its handler to the end
\* and a rotation goroutine, once started, sleeps and then runs to its
\* end: the Go scheduler leaves no runnable goroutine behind for ever.
SpecEnd ==
  /\ Init /\ [][NextEnd]_vars
  /\ WF_vars(MoveReply("c1"))
  /\ \A r \in RotIds : WF_vars(RotStep(r))

\* the board numbers a subscribe message may carry: board 0 and another
Boards == {0, 1}
\* the connections that send subscribe messages
Subscribers == {"c2", "c3"}
\* the connection whose link may fail a write
Failing == "c3"
\* every delivery made so far has been relayed and, where the writer is
\* still running, written out
Settled == \A c \in Clients : inbox[c] = <<>> /\ (wr[c] = "run" => send[c] = <<>>)
\* the reader of c takes up its next message, or fails to: no other
\* handler is in progress
Ready(c) == OnlyClient(c) /\ Settled

\* The life of the connections: they join under distinct names, c2 and c3
\* also subscribe, to board 0 or to another board, and any connection is
\* closed when its reader fails between two messages; one handler runs at
\* a time.  The relay and writer goroutines run beside the handlers and a
\* write to c3 may fail.
NextLink ==
  \/ \E c \in Subscribers, b \in Boards : Ready(c) /\ Subscribe(c, b)
  \/ \E c \in Clients : Ready(c) /\ name[c] = "" /\ JoinGetX(c, OwnName[c])
  \/ \E c \in Clients : JoinGetO(c) \/ JoinAssign(c) \/ JoinNotify(c)
  \/ \E c \in Clients : JoinSnapshot(c) \/ JoinPublish(c)
  \/ \E c \in Clients : SpecsRead(c) \/ SpecsPub(c)
  \/ \E c \in Clients : Relay(c)
  \/ \E c \in Clients : Writer(c)
  \/ WriterFail(Failing)
  \/ \E c \in Clients : WriterExit(c)
  \/ \E c \in Clients : Ready(c) /\ CloseBegin(c)
  \/ \E c \in Clients : CloseFinish(c)

SpecLink == Init /\ [][NextLink]_vars

\* five accepted moves that finish no game: X 1, O 2, X 3, O 4, X 5
FlowGame == {<<1, "X">>, <<2, "O">>, <<3, "X">>, <<4, "O">>, <<5, "X">>}
\* the subscriber whose peer may stop reading, so that its writer stalls
Slow == "c3"

\* One connection sends moves, two others subscribe to the board and
\* receive what is published; the relay and writer goroutines run beside
\* the handler.
NextFlow ==
  \/ \E c \in Subscribers : Subscribe(c, 0)
  \/ \E m \in FlowGame : MoveEval("c1", m[1], m[2])
  \/ MoveReply("c1")
  \/ \E c \in Clients : Relay(c)
  \/ \E c \in Clients : Writer(c)

SpecFlow == Init /\ [][NextFlow]_vars

\* the first four moves of FlowGame
StallGame == {m \in FlowGame : m[1] <= 4}

\* The same three connections, the mover sending its next move when the
\* reply to the last one has been written out.
NextStall ==
  \/ \E c \in Subscribers : Subscribe(c, 0)
  \/ \E m \in StallGame : send["c1"] = <<>> /\ MoveEval("c1", m[1], m[2])
  \/ MoveReply("c1")
  \/ \E c \in Clients : Relay(c)
  \/ \E c \in Clients : Writer(c)

\* Every goroutine that can run does run, except the writer of the slow
\* connection: its WriteMessage may stay blocked on a peer that does not
\* read, for as long as the write deadline allows, again and again.
SpecStall ==
  /\ Init /\ [][NextStall]_vars
  /\ WF_vars(MoveReply("c1"))
  /\ \A c \in Subscribers : WF_vars(Relay(c))
  /\ \A c \in Clients \ {Slow} : WF_vars(Writer(c))

\* the reader goroutine: ReadJSON returns an error because the writer has
\* returned and its deferred call closed the link; the reader calls close()
ReadFail(c) == wr[c] = "exit" /\ CloseBegin(c)

\* the steps of handleClientMessage and of close() that follow the first
HandlerStep(c) ==
  \/ JoinGetO(c) \/ JoinAssign(c) \/ JoinNotify(c)
  \/ JoinSnapshot(c) \/ JoinPublish(c)
  \/ SpecsRead(c) \/ SpecsPub(c)
  \/ CloseFinish(c)

\* The connections join under distinct names, a write to c3 may fail, and
\* the reader of a connection whose link the writer closed fails at its
\* next read; one handler runs at a time.
NextFail ==
  \/ \E c \in Clients : Ready(c) /\ name[c] = "" /\ JoinGetX(c, OwnName[c])
  \/ \E c \in Clients : HandlerStep(c)
  \/ \E c \in Clients : Relay(c)
  \/ \E c \in Clients : Writer(c)
  \/ WriterFail(Failing)
  \/ \E c \in Clients : Ready(c) /\ ReadFail(c)

\* Every goroutine that can take a step does: a handler goes on to its
\* return, the relays and writers run, a read on a closed link returns.
\* No message has to arrive and no write has to fail.
SpecFail ==
  /\ Init /\ [][NextFail]_vars
  /\ \A c \in Clients :
       /\ WF_vars(HandlerStep(c))
       /\ WF_vars(Relay(c))
       /\ WF_vars(Writer(c))
       /\ WF_vars(Ready(c) /\ ReadFail(c))

\* client.writer: the link is closed by close(), the write of the next
\* buffered message fails
WriteClosed(c) == pc[c] = "done" /\ WriterFail(c)

\* every delivery made so far has been relayed
Delivered == \A c \in Clients : inbox[c] = <<>>

\* The connections join under distinct names and any of them is closed
\* when its reader fails, for whatever reason, between two messages, the
\* slow one also with messages still in its buffer; the goroutines of a
\* closed connection return.
NextQuit ==
  \/ \E c \in Clients : Ready(c) /\ name[c] = "" /\ JoinGetX(c, OwnName[c])
  \/ \E c \in Clients : HandlerStep(c)
  \/ \E c \in Clients : Relay(c)
  \/ \E c \in Clients : Writer(c)
  \/ \E c \in Clients : WriteClosed(c)
  \/ \E c \in Clients : WriterExit(c)
  \/ \E c \in Clients : Ready(c) /\ CloseBegin(c)
  \/ OnlyClient(Slow) /\ Delivered /\ CloseBegin(Slow)
  \/ \E c \in Clients : RelayExit(c)
  \/ \E c \in Clients : HandlerExit(c)

\* Every goroutine that can take a step does; no message has to arrive and
\* no reader has to fail.
SpecQuit ==
  /\ Init /\ [][NextQuit]_vars
  /\ \A c \in Clients :
       /\ WF_vars(HandlerStep(c))
       /\ WF_vars(Relay(c))
       /\ WF_vars(Writer(c))
       /\ WF_vars(WriteClosed(c))
       /\ WF_vars(WriterExit(c))
       /\ WF_vars(RelayExit(c))
       /\ WF_vars(HandlerExit(c))

\* One connection sends the moves of games that end in a win or in a draw,
\* each when what the last one caused has been delivered, and another one
\* watches the channel; the store may fail to run the script; no rotation
\* runs yet.
NextPlay ==
  \/ \E m \in ShortGame \cup DrawGame : Drained /\ MoveEval("c1", m[1], m[2])
  \/ MoveReply("c1")
  \/ \E m \in ShortGame : Drained /\ MoveEvalErr("c1", m[1], m[2])
  \/ MoveDropped("c1")
  \/ \E c \in Clients : Writer(c)
  \/ Subscribe(Observer, 0)
  \/ Relay(Observer)

SpecPlay == Init /\ [][NextPlay]_vars

\* the name chat messages carry
Author == "A"
\* the connection that posts and fetches
Talker == "c1"

\* One connection posts chat messages and asks for the board, one message
\* after the other; another one watches the channel; the file may fail to
\* take a line and the store may expire the chat key.
NextTalk ==
  \/ \E x \in Contents : Drained /\ ChatWrite(Talker, Author, x)
  \/ \E x \in Contents : Drained /\ ChatWriteErr(Talker, Author, x)
  \/ Drained /\ GetBoard(Talker)
  \/ ChatStep(Talker)
  \/ Expired
  \/ Subscribe(Observer, 0)
  \/ Relay(Observer)
  \/ \E c \in Clients : Writer(c)

SpecTalk == Init /\ [][NextTalk]_vars

\* the connections that post and fetch at the same time
Talkers == {"c1", "c2"}

\* Two connections ask for the board at the same time and one of them
\* posts short chat messages, each starting its next handler when its
\* buffer has been written out; the store may expire the chat key.
NextChat ==
  \/ send[Talker] = <<>> /\ ChatWrite(Talker, Author, "a")
  \/ \E c \in Talkers : send[c] = <<>> /\ GetBoard(c)
  \/ \E c \in Talkers : ChatStep(c)
  \/ Expired
  \/ \E c \in Talkers : Writer(c)

SpecChat == Init /\ [][NextChat]_vars

\* the connection that only watches, chats and asks for the board
Guest == "c3"

\* Every kind of message, one handler or rotation at a time: c1 and c2
\* join and may close, c1 plays short games, the guest subscribes, asks
\* for the board and posts one chat message; rotations follow the games
\* and the chat key may expire between two messages.
NextFrame ==
  \/ \E c \in Movers : Turn(c) /\ name[c] = "" /\ JoinGetX(c, OwnName[c])
  \/ \E c \in Movers : HandlerStep(c)
  \/ \E m \in ShortGame : Turn("c1") /\ MoveEval("c1", m[1], m[2])
  \/ MoveReply("c1")
  \/ \E b \in Boards : Turn(Guest) /\ Subscribe(Guest, b)
  \/ Turn(Guest) /\ GetBoard(Guest)
  \/ Turn(Guest) /\ disk = <<>> /\ ChatWrite(Guest, Author, "a")
  \/ ChatStep(Guest)
  \/ Turn(Guest) /\ Expired
  \/ Turn("c2") /\ CloseBegin("c2")
  \/ \E r \in RotIds : AloneRot(r) /\ (rot[r].pc = "sleep" => Drained) /\ RotStep(r)
  \/ \E c \in Clients : Writer(c) \/ Relay(c)

SpecFrame == Init /\ [][NextFrame]_vars

\* what each of the two posting connections writes
Says == [c \in Talkers |-> IF c = "c1" THEN "a" ELSE "b"]
\* the steps of the chat handler that follow the append to the file
PostStep(c) == ChatPush(c) \/ ChatTrim(c) \/ ChatExpire(c) \/ ChatPublish(c)

\* Two connections post one chat message each, at the same time, and a
\* third one watches the channel.
NextPost ==
  \/ \E c \in Talkers :
       /\ \A i \in 1..Len(disk) : disk[i] # ChatMsg(Author, Says[c])
       /\ ChatWrite(c, Author, Says[c])
  \/ \E c \in Talkers : PostStep(c)
  \/ Subscribe(Observer, 0)
  \/ Relay(Observer)
  \/ Writer(Observer)

SpecPost == Init /\ [][NextPost]_vars

\* The relay of a connection receives a message and hands it to safeSend
\* in two steps, so that a close of the connection can come between them.
RelayStep(c) == RelayTake(c) \/ RelayGive(c)

\* Two connections join and are closed when their readers fail, at any
\* point between two messages, whatever their relays hold.
NextShut ==
  \/ \E c \in Movers : OnlyClient(c) /\ name[c] = "" /\ JoinGetX(c, OwnName[c])
  \/ \E c \in Movers : HandlerStep(c)
  \/ \E c \in Movers : RelayStep(c)
  \/ \E c \in Movers : Writer(c)
  \/ \E c \in Movers : OnlyClient(c) /\ CloseBegin(c)

SpecShut == Init /\ [][NextShut]_vars

\* the steps of the join handler up to its board_state
JoinStep(c) ==
  \/ JoinGetO(c) \/ JoinAssign(c) \/ JoinNotify(c)
  \/ JoinSnapshot(c) \/ JoinPublish(c)
  \/ SpecsRead(c) \/ SpecsPub(c)

\* the connection that joins while another one plays
Joiner == "c2"

\* what was delivered to the playing and to the joining connection has
\* been written out
Flushed == \A c \in {"c1", Joiner} : inbox[c] = <<>> /\ send[c] = <<>>

\* One connection plays a short game while another one joins, the steps of
\* the move handler falling anywhere between those of the join; a third
\* connection watches the channel and keeps the newest delivery in its
\* subscription.  No rotation runs yet.
NextStale ==
  \/ Subscribe(Observer, 0)
  \/ name[Joiner] = "" /\ JoinGetX(Joiner, OwnName[Joiner])
  \/ Flushed /\ JoinStep(Joiner)
  \/ \E mv \in ShortGame : Flushed /\ MoveEval("c1", mv[1], mv[2])
  \/ Flushed /\ MoveReply("c1")
  \/ Relay(Joiner)
  \/ Len(inbox[Observer]) > 1 /\ Relay(Observer)
  \/ \E c \in Clients : Writer(c)

SpecStale == Init /\ [][NextStale]_vars


\* =============================================================== claims
\* the i-th cell of a cells string: its characters sit at the odd indexes
CellAt(cs, i) == cs[2 * i - 1]
\* the eight lines of the grid, as sets of cell numbers
WinLines ==
  {{3 * k + 1, 3 * k + 2, 3 * k + 3} : k \in 0..2}
    \cup {{k, k + 3, k + 6} : k \in 1..3}
    \cup {{1, 5, 9}, {3, 5, 7}}
\* line L of cs is filled with symbol x
Filled(cs, L, x) == \A i \in L : CellAt(cs, i) = x
FilledLines(cs) == {L \in WinLines : \E x \in Symbols : Filled(cs, L, x)}
FullGrid(cs) == \A i \in 1..9 : CellAt(cs, i) # "_"
\* this step is the run of the move script for connection c
Evaluated(c) == pc[c] = "idle" /\ pc'[c] = "move_reply"
\* this step is the grid reset of a rotation
ResetStep == \E r \in RotIds : rot[r].pc = "reset" /\ rot'[r].pc = "snapshot"

\* C1: while winner is non-empty every run of the move script returns error
\* and leaves cells, turn and winner as they are; they change again only by
\* the reset of a rotation, which restores the initial grid.
C1_FinishedBoardFrozen ==
  [][winner # "" =>
       /\ \A c \in Clients : Evaluated(c) =>
            loc'[c].res.status = "error" /\ UNCHANGED boardVars
       /\ boardVars' # boardVars =>
            ResetStep /\ cells' = EmptyCells /\ turn' = "X" /\ winner' = ""]_vars

\* a move that only the winner check rejects has been answered with error
C1_Witness ==
  \E c \in Clients :
    /\ pc[c] = "move_reply" /\ loc[c].res.status = "error"
    /\ winner \in Symbols /\ loc[c].sym = turn
    /\ loc[c].pos \in 1..9 /\ CellAt(cells, loc[c].pos) = "_"

\* C4: the script rejects exactly when winner is non-empty, or the symbol is
\* not the turn, or the position is outside 1..9, or the target cell is
\* occupied; otherwise it writes the symbol into the target cell and no other.
C4_RejectIff ==
  [][\A c \in Clients : Evaluated(c) =>
       LET pos == loc'[c].pos
           sym == loc'[c].sym
           bad == \/ winner # ""
                  \/ sym # turn
                  \/ pos \notin 1..9
                  \/ CellAt(cells, pos) # "_"
       IN /\ loc'[c].res.status = "error" <=> bad
          /\ ~bad => /\ Len(cells') = Len(cells)
                     /\ CellAt(cells', pos) = sym
                     /\ \A i \in 1..Len(cells) :
                          i # 2 * pos - 1 => cells'[i] = cells[i]]_vars

\* an occupied cell was refused on a running game, the turn being right
C4_Witness ==
  \E c \in Clients :
    /\ pc[c] = "move_reply" /\ loc[c].res.status = "error"
    /\ winner = "" /\ loc[c].sym = turn
    /\ loc[c].pos \in 1..9 /\ CellAt(cells, loc[c].pos) # "_"

\* C5: after an accepted move the status is win, with the mover as winner,
\* exactly when the new grid has a filled line; else draw, with winner draw,
\* exactly when the grid is full; else ok with winner still empty.
C5_StatusByGrid ==
  [][\A c \in Clients : Evaluated(c) /\ loc'[c].res.status # "error" =>
       LET st == loc'[c].res.status
           line == FilledLines(cells') # {}
           full == FullGrid(cells')
       IN /\ st = "win" <=> line
          /\ st = "draw" <=> ~line /\ full
          /\ st = "ok" <=> ~line /\ ~full
          /\ st = "win" => winner' = loc'[c].sym /\ loc'[c].res.winner = loc'[c].sym
          /\ st = "draw" => winner' = "draw" /\ loc'[c].res.winner = "draw"
          /\ st = "ok" => winner' = "" /\ loc'[c].res.winner = ""
          /\ loc'[c].res.cells = cells']_vars

\* X,X,_,O,O,_,_,_,_ with X moving at 3 has given win, winner X
C5_Witness ==
  \E c \in Clients :
    /\ pc[c] = "move_reply" /\ loc[c].res.status = "win"
    /\ loc[c].pos = 3 /\ loc[c].sym = "X" /\ winner = "X"
    /\ cells = <<"X", ",", "X", ",", "X", ",", "O", ",", "O", ",",
                 "_", ",", "_", ",", "_", ",", "_">>

\* C6: turn becomes the other symbol exactly when the script returns ok and
\* is unchanged by win, draw and error; on the empty board with turn X the
\* move 5, X returns ok, sets cell 5 to X and makes the turn O.
C6_TurnToggles ==
  [][\A c \in Clients : Evaluated(c) =>
       /\ loc'[c].res.status = "ok" =>
            turn' # turn /\ turn' \in Symbols /\ loc'[c].res.turn = turn'
       /\ loc'[c].res.status # "ok" => turn' = turn
       /\ (cells = EmptyCells /\ turn = "X" /\ winner = ""
             /\ loc'[c].pos = 5 /\ loc'[c].sym = "X") =>
            /\ loc'[c].res.status = "ok"
            /\ CellAt(cells', 5) = "X"
            /\ turn' = "O"]_vars

\* the first move of a game was 5, X
C6_Witness ==
  \E c \in Clients :
    /\ pc[c] = "move_reply" /\ loc[c].res.status = "ok"
    /\ loc[c].pos = 5 /\ loc[c].sym = "X" /\ turn = "O"
    /\ \A i \in 1..9 : CellAt(cells, i) = IF i = 5 THEN "X" ELSE "_"

\* C7 as stated: an accepted move completes at most one line.
C7_AtMostOneLine ==
  \A c \in Clients :
    pc[c] = "move_reply" /\ loc[c].res.status # "error" =>
      Cardinality(FilledLines(loc[c].res.cells)) <= 1

\* C7 amended: an accepted move completes at most two lines, all of them
\* through the cell just played and filled with the mover's symbol, which is
\* the winner stored; so the order of evaluation cannot change the outcome.
C7_LinesAgree ==
  [][\A c \in Clients : Evaluated(c) /\ loc'[c].res.status # "error" =>
       /\ Cardinality(FilledLines(cells')) <= 2
       /\ \A L \in FilledLines(cells') :
            /\ loc'[c].pos \in L
            /\ Filled(cells', L, loc'[c].sym)
            /\ winner' = loc'[c].sym]_vars

\* one move has completed two lines at once
C7_Witness ==
  \E c \in Clients :
    /\ pc[c] = "move_reply" /\ loc[c].res.status = "win"
    /\ Cardinality(FilledLines(cells)) = 2

\* message m records a move that adds exactly its own cell to the grid prev
Extends(prev, m) ==
  /\ m.position \in 1..9
  /\ CellAt(prev, m.position) = "_"
  /\ CellAt(m.cells, m.position) = m.symbol
  /\ \A j \in 1..9 : j # m.position => CellAt(m.cells, j) = CellAt(prev, j)

\* C2 as stated: on the channel every move_made that follows another one
\* extends the grid of that one by exactly its own cell (seen in the
\* delivery order of a subscription, which is the publication order).
C2_PublishedInOrder ==
  \A c \in Clients : \A i \in 1..(Len(inbox[c]) - 1) :
    (inbox[c][i].type = "move_made" /\ inbox[c][i + 1].type = "move_made")
      => Extends(inbox[c][i].cells, inbox[c][i + 1])

\* this step is the reply of the move handler of connection c
Replied(c) == pc[c] = "move_reply" /\ pc'[c] = "idle"

\* C3 as stated: a rejected move leaves the board record alone, puts the
\* error message on the requester's buffer and nowhere else, publishes
\* nothing and starts no rotation.
C3_RejectionAnswered ==
  [][\A c \in Clients :
       /\ (Evaluated(c) /\ loc'[c].res.status = "error")
            => UNCHANGED <<boardVars, seatVars, queue>>
       /\ (Replied(c) /\ loc[c].res.status = "error")
            => /\ send'[c] = Append(send[c], ErrorMsg)
               /\ \A d \in Clients \ {c} : send'[d] = send[d]
               /\ UNCHANGED <<boardVars, seatVars, queue, inbox, rot>>]_vars

\* C3 amended: as stated, except that the error message is dropped when the
\* requester's buffer is already full.
C3_RejectionAnsweredOrDropped ==
  [][\A c \in Clients :
       /\ (Evaluated(c) /\ loc'[c].res.status = "error")
            => UNCHANGED <<boardVars, seatVars, queue>>
       /\ (Replied(c) /\ loc[c].res.status = "error")
            => /\ send'[c] = IF Len(send[c]) < SendCap
                               THEN Append(send[c], ErrorMsg) ELSE send[c]
               /\ \A d \in Clients \ {c} : send'[d] = send[d]
               /\ UNCHANGED <<boardVars, seatVars, queue, inbox, rot>>]_vars

\* a rejection has been answered while the channel had a subscriber
C3_Witness ==
  \E c \in Movers :
    /\ pc[c] = "idle" /\ send[c] # <<>> /\ send[c][Len(send[c])] = ErrorMsg
    /\ pubsub[Observer] = "open" /\ inbox[Observer] = <<>> /\ send[Observer] = <<>>

\* a seat that holds nobody: the field is absent or holds the sentinel
NoHolder(p) == p \in {"", "Waiting..."}
\* this step is the seat or queue write of the Join of connection c
Assigned(c) == pc[c] = "join_assign" /\ pc'[c] = "join_notify"

\* C8: a Join run on its own writes the name into seat X if that seat holds
\* nobody, else into seat O if that seat holds nobody, else at the back of
\* the queue, and changes nothing else of seats and queue.
C8_JoinOneOfThree ==
  [][\A c \in Clients : Assigned(c) =>
       IF NoHolder(playerXName)
         THEN playerXName' = name[c] /\ UNCHANGED <<playerOName, queue>>
         ELSE IF NoHolder(playerOName)
           THEN playerOName' = name[c] /\ UNCHANGED <<playerXName, queue>>
           ELSE queue' = Append(queue, name[c]) /\ UNCHANGED seatVars]_vars

\* three joins on the empty board: first in seat X, second in seat O, third
\* first in the queue
C8_Witness ==
  /\ playerXName = "A" /\ playerOName = "B" /\ queue = <<"C">>
  /\ name = [c \in Clients |-> IF c = "c1" THEN "A" ELSE IF c = "c2" THEN "B" ELSE "C"]
  /\ \A c \in Clients : pc[c] = "idle"
  /\ cells = EmptyCells /\ \A r \in RotIds : rot[r].pc = "free"

\* the number of places (seat X, seat O, queue positions) that hold n
Places(n) ==
  (IF playerXName = n THEN 1 ELSE 0) + (IF playerOName = n THEN 1 ELSE 0)
    + Cardinality({i \in 1..Len(queue) : queue[i] = n})

\* C9 as stated: no name is in more than one of seat X, seat O and the
\* positions of the queue.
C9_AtMostOnce == \A n \in Names : Places(n) <= 1

\* the sequence s followed by p when p is a real holder
WithHolder(s, p) == IF NoHolder(p) THEN s ELSE Append(s, p)
\* the i-th element of s, the sentinel where s is too short
OrSentinel(s, i) == IF i <= Len(s) THEN s[i] ELSE "Waiting..."

\* C10: a rotation that ran on its own from seats pX, pO and queue q0 leaves,
\* at its grid reset, the first two elements of q0 + real pX + real pO in
\* the seats (the sentinel where there is none), the rest as the queue, and
\* the initial grid.
C10_RotationResult ==
  [][\A r \in RotIds : (rot[r].pc = "reset" /\ rot'[r].pc = "snapshot") =>
       LET ext == WithHolder(WithHolder(rot[r].q0, rot[r].pX), rot[r].pO) IN
         /\ playerXName' = OrSentinel(ext, 1)
         /\ playerOName' = OrSentinel(ext, 2)
         /\ queue' = SubSeq(ext, 3, Len(ext))
         /\ cells' = EmptyCells /\ turn' = "X" /\ winner' = ""]_vars

\* a rotation has moved both players behind a waiting third one, who took
\* seat X while the former seat X holder took seat O
C10_Witness ==
  \E r \in RotIds :
    /\ rot[r].pc = "snapshot"
    /\ rot[r].pX = "A" /\ rot[r].pO = "B" /\ rot[r].q0 = <<"C">>
    /\ playerXName = "C" /\ playerOName = "A" /\ queue = <<"B">>
    /\ cells = EmptyCells /\ winner = ""

\* no handler and no rotation is between its first and its last step
Quiet == (\A c \in Clients : ~ClientBusy(c)) /\ (\A r \in RotIds : ~RotBusy(r))

\* C11 as stated: when the rotation and the Joins that ran beside it have
\* finished, every name whose Join completed on a connection that is still
\* open is in exactly one of seat X, seat O and the queue.
C11_JoinedHoldOnePlace ==
  Quiet => \A c \in Clients :
             (name[c] # "" /\ ~closed[c]) => Places(name[c]) = 1

\* the members of a sequence
Range(s) == {s[i] : i \in 1..Len(s)}
\* this step of the Join of connection c writes its name into a seat
Seated(c) == Assigned(c) /\ queue' = queue

\* C12 as stated: the queue changes only by an append at its tail, by the
\* promotion of its head or by the removal of a name that left, so of two
\* waiting names the one queued first is promoted first; and a Join takes
\* a seat only if nobody who was waiting when it began is still waiting.
C12_WaitingOrderKept ==
  [][/\ queue' # queue =>
          \/ \E n \in Names : queue' = Append(queue, n)
          \/ queue' = Tail(queue)
          \/ \E n \in Names : queue' = LRem(queue, n)
     /\ \A c \in Clients :
          Seated(c) => Range(loc[c].q0) \cap Range(queue) = {}]_vars

\* C13 as stated: no move is accepted by the script while a rotation is
\* between its first step (the read of seat X) and its last (the
\* publication of the queue).
C13_NoMoveInsideRotation ==
  [][\A c \in Clients :
       (Evaluated(c) /\ loc'[c].res.status # "error")
         => \A r \in RotIds : ~RotBusy(r)]_vars

\* the rotation goroutines started by this step
Started == {r \in RotIds : rot[r].pc = "free" /\ rot'[r].pc = "sleep"}
\* connection c's move handler holds a result that ended the game
Ended(c) == pc[c] = "move_reply" /\ loc[c].res.status \in {"win", "draw"}

\* C14: the handler of a move that returned win or draw starts exactly one
\* rotation goroutine, nothing else starts one, every rotation started runs
\* to its end, and every finished board is reset by it.
C14_EndRotatesOnce ==
  /\ [][/\ \A c \in Clients : (Replied(c) /\ Ended(c)) => Cardinality(Started) = 1
        /\ Started # {} => \E c \in Clients : Replied(c) /\ Ended(c)]_vars
  /\ \A r \in RotIds : (rot[r].pc = "sleep") ~> (rot[r].pc = "free")
  /\ (winner # "") ~> (winner = "")

\* a game has ended in a draw and the one rotation started for it has
\* written the seats and is about to reset the board
C14_Witness ==
  /\ winner = "draw" /\ FullGrid(cells)
  /\ \E r \in RotIds :
       /\ rot[r].pc = "reset"
       /\ \A q \in RotIds \ {r} : rot[q].pc = "free"
  /\ pc["c1"] = "idle"

\* this step is the entry of connection c into the cleanup of close()
CloseStarts(c) == pc[c] = "idle" /\ pc'[c] \in ClosePcs
\* this step is the release at the end of close(): cancellation signal,
\* subscription, outbound buffer and link
Released(c) == pc[c] # "done" /\ pc'[c] = "done"

\* C15: the cleanup of a connection runs only in the close that turns the
\* closed flag from false to true, and the flag never turns back: the name
\* is removed from the queue in that step, the release follows once at the
\* end of that close and leaves the subscription closed, the relay without
\* deliveries and the link closed; a Closed connection is never changed
\* again.
C15_CleanupOnce ==
  [][\A c \in Clients :
       /\ closed[c] => closed'[c]
       /\ CloseStarts(c) =>
            ~closed[c] /\ closed'[c] /\ queue' = LRem(queue, name[c])
       /\ Released(c) =>
            /\ pc[c] = "close_finish" /\ closed[c]
            /\ pubsub'[c] \in {"nil", "closed"} /\ inbox'[c] = <<>>
            /\ ConnClosed(c)'
       /\ (pubsub'[c] = "closed" /\ pubsub[c] # "closed") => Released(c)
       /\ pc[c] = "done" =>
            /\ pc'[c] = "done" /\ closed'[c] /\ pubsub'[c] = pubsub[c]
            /\ inbox'[c] = <<>> /\ Len(send'[c]) <= Len(send[c])]_vars

\* C waited in the queue behind A and B; its writer failed, then its reader
\* failed, and the one close removed C from the queue and released the
\* subscription
C15_Witness ==
  /\ pc["c3"] = "done" /\ closed["c3"] /\ name["c3"] = "C"
  /\ pubsub["c3"] = "closed" /\ wr["c3"] = "exit"
  /\ playerXName = "A" /\ playerOName = "B" /\ queue = <<>>
  /\ ~closed["c1"] /\ ~closed["c2"]

\* the number of occupied cells of the grid cs
Fill(cs) == Cardinality({i \in 1..9 : CellAt(cs, i) # "_"})
\* this step is a delivery of the relay of connection c
Relayed(c) == inbox[c] # <<>> /\ inbox'[c] = Tail(inbox[c])
\* s2 is s1 with one element more at its tail
Grown(s1, s2) == Len(s2) = Len(s1) + 1 /\ SubSeq(s2, 1, Len(s1)) = s1

\* C16: a buffer never holds more than its capacity; it changes only by
\* one message appended at its tail while it is below capacity or by its
\* oldest message taken by the writer; a relay delivery and an error reply
\* append their message if there is room and drop it if there is none, and
\* both can always be made, whatever the buffer holds.
C16_SendNeverBlocks ==
  /\ [](\A c \in Clients :
          /\ Len(send[c]) <= SendCap
          /\ (pubsub[c] = "open" /\ inbox[c] # <<>> /\ MuFree(c)) => ENABLED Relay(c)
          /\ (pc[c] = "move_reply" /\ loc[c].res.status = "error")
               => ENABLED MoveReply(c))
  /\ [][\A c \in Clients :
          /\ \/ send'[c] = send[c]
             \/ Len(send[c]) < SendCap /\ Grown(send[c], send'[c])
             \/ send[c] # <<>> /\ send'[c] = Tail(send[c])
          /\ Relayed(c) =>
               send'[c] = IF Len(send[c]) < SendCap
                            THEN Append(send[c], Head(inbox[c])) ELSE send[c]
          /\ (Replied(c) /\ loc[c].res.status = "error") =>
               send'[c] = IF Len(send[c]) < SendCap
                            THEN Append(send[c], ErrorMsg) ELSE send[c]]_vars

\* the slow connection subscribed before the first move, its buffer is
\* full and still starts with the first event, and more events than the
\* buffer holds have been published and relayed: the later ones were
\* dropped
C16_Witness ==
  /\ Len(send[Slow]) = SendCap /\ inbox[Slow] = <<>>
  /\ Fill(send[Slow][1].cells) = 1
  /\ Fill(cells) > SendCap /\ pc["c1"] = "idle"

\* C17: whatever the buffers of the other connections hold, a relay
\* delivery to a connection whose buffer has room appends the event; and,
\* the writer of the slow connection being free to stall for ever, every
\* delivery waiting in a subscription is relayed and every move handler
\* gets through its reply or publication.
C17_SlowOneStallsNobody ==
  /\ [][\A d \in Clients :
          (Relayed(d) /\ Len(send[d]) < SendCap)
            => send'[d] = Append(send[d], Head(inbox[d]))]_vars
  /\ \A d \in Subscribers : (inbox[d] # <<>>) ~> (inbox[d] = <<>>)
  /\ (pc["c1"] = "move_reply") ~> (pc["c1"] = "idle")

\* the buffer of the slow connection is full, and the other subscriber has
\* been handed an event that the slow one had no room for
C17_Witness ==
  /\ Len(send[Slow]) = SendCap /\ inbox[Slow] = <<>>
  /\ send["c2"] # <<>>
  /\ \A i \in 1..SendCap :
       Fill(send[Slow][i].cells) < Fill(send["c2"][Len(send["c2"])].cells)
  /\ pc["c1"] = "idle"

\* the events a subscription holds: those in the outbound buffer followed
\* by those not yet relayed
Held(c) == send[c] \o inbox[c]

\* C20: with one connection moving, the events are published in the order
\* of their grids (each has one cell more than the one before); the events
\* a subscriber holds are in that order without repetition, and two
\* subscribers hold their common events in the same order.
C20_DeliveredInOrder ==
  /\ \A c \in Subscribers : \A i, j \in 1..Len(Held(c)) :
       i < j => Fill(Held(c)[i].cells) < Fill(Held(c)[j].cells)
  /\ \A c, d \in Subscribers :
       \A i, j \in 1..Len(Held(c)) : \A k, l \in 1..Len(Held(d)) :
         (i < j /\ Held(c)[i] = Held(d)[k] /\ Held(c)[j] = Held(d)[l]) => k < l

\* a subscriber holds two events with a dropped one between them, and the
\* other subscriber holds the later of the two as well
C20_Witness ==
  \E c, d \in Subscribers :
    /\ c # d /\ Len(send[c]) >= 2
    /\ \E i \in 1..(Len(send[c]) - 1) :
         /\ Fill(send[c][i + 1].cells) > Fill(send[c][i].cells) + 1
         /\ \E k \in 1..Len(Held(d)) : Held(d)[k] = send[c][i + 1]

\* this step belongs to the closing of connection c: a step of close(), or
\* the failed write after which its writer closes the link
Closing(c) ==
  \/ pc'[c] # pc[c] /\ (pc[c] \in ClosePcs \/ pc'[c] \in ClosePcs)
  \/ wr'[c] # wr[c]
\* s1 is an initial part of s2
Prefix(s1, s2) == Len(s1) <= Len(s2) /\ SubSeq(s2, 1, Len(s1)) = s1

\* C18: a step of the closing of one connection leaves the closed flag,
\* the reader and writer, the subscription and the outbound buffer of every
\* other connection as they are and takes no delivery away from it; and
\* whatever is published reaches every open subscription of the board,
\* whichever connections are closed.
C18_CloseTouchesOneConnection ==
  [][/\ \A c \in Clients : Closing(c) =>
          \A d \in Clients \ {c} :
            /\ closed'[d] = closed[d] /\ pc'[d] = pc[d] /\ wr'[d] = wr[d]
            /\ pubsub'[d] = pubsub[d] /\ send'[d] = send[d]
            /\ name'[d] = name[d] /\ Prefix(inbox[d], inbox'[d])
     /\ \A d, e \in Clients :
          (pubsub[d] = "open" /\ pubsub[e] = "open" /\ Grown(inbox[e], inbox'[e]))
            => inbox'[d] = Append(inbox[d], inbox'[e][Len(inbox'[e])])]_vars

\* c3 is closed; c1 has joined after that and the board state it
\* published has been delivered to c2, which is open and subscribed
C18_Witness ==
  /\ pc["c3"] = "done" /\ pubsub["c3"] = "closed" /\ closed["c3"]
  /\ ~closed["c2"] /\ pubsub["c2"] = "open" /\ pc["c2"] = "idle"
  /\ pc["c1"] = "join_specsRead"
  /\ inbox["c2"] # <<>> /\ inbox["c2"][Len(inbox["c2"])].type = "board_state"

\* C19: once a connection has a subscription, no Subscribe and no join
\* gives it another one: the subscription stays what it is until the close
\* releases it, a subscription to another board receives nothing of board
\* 0, and one publication adds at most one delivery to a subscription.
C19_SubscribeOnce ==
  [][\A c \in Clients :
       /\ pubsub[c] # "nil" =>
            \/ pubsub'[c] = pubsub[c]
            \/ Released(c) /\ pubsub'[c] = "closed"
       /\ pubsub'[c] # "open" => inbox'[c] = <<>>
       /\ \/ Len(inbox'[c]) <= Len(inbox[c])
          \/ pubsub[c] = "open" /\ Grown(inbox[c], inbox'[c])]_vars

\* c2 subscribed to another board and then joined board 0: it is still
\* subscribed to the other board only; c3 subscribed to board 0, joined
\* and holds one copy of the board state its join published
C19_Witness ==
  /\ pubsub["c2"] = "other" /\ name["c2"] = "B" /\ pc["c2"] = "idle"
  /\ pubsub["c3"] = "open" /\ name["c3"] = "C" /\ pc["c3"] = "join_specsRead"
  /\ Len(inbox["c3"]) = 1 /\ inbox["c3"][1].type = "board_state"
  /\ send["c3"] = <<>>

\* the close of connection c has run to its end: its name is in the queue
\* no more, its subscription is released and its reader has returned
Cleaned(c) ==
  /\ pc[c] = "done" /\ closed[c]
  /\ pubsub[c] # "open" /\ inbox[c] = <<>>
  /\ name[c] # "" => \A i \in 1..Len(queue) : queue[i] # name[c]

\* C21: when the writer of a connection has returned on a failed write,
\* the connection is eventually closed, with its name removed from the
\* queue, its done signal given and its subscription and buffer released.
C21_WriteFailureCloses ==
  \A c \in Clients : (wr[c] = "exit") ~> Cleaned(c)

\* a write to c3 failed while c3 was waiting in the queue behind the two
\* players, and its close has run: the queue is empty again
C21_Witness ==
  /\ wr["c3"] = "exit" /\ Cleaned("c3") /\ name["c3"] = "C"
  /\ playerXName # "" /\ playerOName # "" /\ playerXName # "C" /\ playerOName # "C"
  /\ send["c3"] # <<>>

\* every goroutine of connection c has returned: the reader, the writer,
\* the /ws handler and, if c subscribed, the relay
Terminated(c) ==
  /\ pc[c] = "done" /\ wr[c] = "exit"
  /\ "handler" \in ended[c]
  /\ pubsub[c] # "nil" => "relay" \in ended[c]

\* C30: once close() has marked a connection closed, its reader, its
\* writer, its relay and its /ws handler all eventually return.
C30_TasksTerminate ==
  \A c \in Clients : closed[c] ~> Terminated(c)

\* c3 joined, was closed with messages still in its buffer, and all four
\* of its goroutines have returned
C30_Witness ==
  /\ closed["c3"] /\ Terminated("c3") /\ name["c3"] = "C"
  /\ pubsub["c3"] = "closed" /\ send["c3"] # <<>>

\* this step is the publication made by the close of connection c
ClosePublishes(c) == pc[c] = "close_specsPub" /\ pc'[c] = "close_finish"

\* C28: the close of a named connection removes its name from the queue
\* and then publishes a spectators_update that carries the queue as it is
\* after the removal, to every open subscription of the board; no step of
\* the close of a connection that never joined changes the queue or
\* publishes anything.
C28_CloseLeavesQueue ==
  [][\A c \in Clients :
       /\ (CloseStarts(c) /\ name[c] # "") =>
            /\ queue' = LRem(queue, name[c])
            /\ pc'[c] = "close_specsRead"
       /\ ClosePublishes(c) =>
            /\ name[c] # "" /\ name[c] \notin Range(queue)
            /\ loc[c].specs = queue /\ queue' = queue
            /\ \A d \in Clients : pubsub[d] = "open" =>
                 inbox'[d] = Append(inbox[d], SpectatorsUpdate(queue))
       /\ (Closing(c) /\ name[c] = "") =>
            /\ queue' = queue
            /\ \A d \in Clients : Len(inbox'[d]) <= Len(inbox[d])
            /\ pc'[c] \notin {"close_specsRead", "close_specsPub"}]_vars

\* c3 waited in the queue behind c1 and c2 and is closing: the queue is
\* empty and c1 has been delivered the spectators_update with no name
C28_Witness ==
  /\ pc["c3"] = "close_finish" /\ name["c3"] = "C" /\ queue = <<>>
  /\ name["c1"] = "A" /\ name["c2"] = "B" /\ pubsub["c1"] = "open"
  /\ inbox["c1"] = <<SpectatorsUpdate(<<>>)>>

\* some subscription is delivered a move_made event in this step
MoveDelivered ==
  \E d \in Clients :
    /\ Len(inbox'[d]) > Len(inbox[d])
    /\ inbox'[d][Len(inbox'[d])].type = "move_made"

\* C29: the run of the script that accepts a move publishes nothing itself
\* and returns the grid, turn and winner it has written, with the symbol
\* at the position of the move; the reply step that follows publishes one
\* move_made event with that position, that symbol and those values to
\* every open subscription, and the handler is back at its start; no other
\* step delivers a move_made event.
C29_AcceptedMovePublishedOnce ==
  [][/\ \A c \in Clients :
          /\ (Evaluated(c) /\ loc'[c].res.status # "error") =>
               /\ loc'[c].res.status \in {"ok", "win", "draw"}
               /\ loc'[c].res.cells = cells'
               /\ loc'[c].res.turn = turn'
               /\ loc'[c].res.winner = winner'
               /\ CellAt(cells', loc'[c].pos) = loc'[c].sym
               /\ inbox' = inbox
          /\ (Replied(c) /\ loc[c].res.status # "error") =>
               \A d \in Clients : pubsub[d] = "open" =>
                 inbox'[d] = Append(inbox[d],
                   [type |-> "move_made", position |-> loc[c].pos,
                    symbol |-> loc[c].sym, cells |-> loc[c].res.cells,
                    turn |-> loc[c].res.turn, winner |-> loc[c].res.winner])
     /\ MoveDelivered =>
          \E c \in Clients : Replied(c) /\ loc[c].res.status # "error"]_vars

\* the observer has been delivered the event of the move that fills the
\* grid with no line, and nothing else is in flight
C29_Witness ==
  /\ winner = "draw" /\ pc["c1"] = "idle"
  /\ send[Observer] = <<>>
  /\ inbox[Observer] = <<[type |-> "move_made", position |-> 9, symbol |-> "X",
                           cells |-> cells, turn |-> "X", winner |-> "draw"]>>

\* this step is the return of the move handler of c after EvalSha failed
Dropped(c) == pc[c] = "move_failed" /\ pc'[c] = "idle"

\* C27: when the store fails to run the move script, the requester is sent
\* an error message, the board record stays as it is and nothing is
\* published.
C27_StoreFailureReported ==
  [][\A c \in Clients :
       Dropped(c) =>
         /\ Len(send'[c]) = Len(send[c]) + 1
         /\ send'[c][Len(send'[c])].type = "error"
         /\ UNCHANGED boardVars
         /\ inbox' = inbox]_vars

\* this step is the cache insertion of the chat handler of c
Cached(c) == pc[c] = "chat_push" /\ pc'[c] = "chat_trim"
\* this step is the publication of the chat handler of c
ChatPublished(c) == pc[c] = "chat_publish" /\ pc'[c] = "idle"
\* no handler is in progress
Idle == \A c \in Clients : pc[c] \in {"idle", "done"}

\* C22: the chat handler inserts its entry into the cache only when the
\* entry is in the file, and publishes it only after that insertion; every
\* entry of the cache is a line of the file.
C22_LogThenCacheThenPublish ==
  [][/\ \A c \in Clients :
          /\ Cached(c) => loc[c].jsonStr \in Range(disk)
          /\ ChatPublished(c) => loc[c].jsonStr \in Range(disk)
     /\ Range(chat') \subseteq Range(disk')]_vars

\* C23: when the append of its entry to the file has failed, the chat
\* handler neither inserts the entry into the cache nor publishes it.
C23_FailedAppendDropsEntry ==
  [][\A c \in Clients :
       (pc[c] \in {"chat_push", "chat_trim", "chat_expire", "chat_publish"}
          /\ ~loc[c].wrote)
         => chat' = chat /\ inbox' = inbox]_vars

\* C24: with no handler in progress, a chat cache that exists holds the
\* last Window lines of the file in their order, which is also what a
\* cache miss would load.
C24_CacheIsLogTail ==
  (Idle /\ chat # <<>>) =>
    chat = LastN(disk, Window) /\ chat = loadFromDisk(Window)

\* this step is the reply of the get_board handler of c
Fetched(c) == pc[c] = "get_reply" /\ pc'[c] = "idle"

\* C25: a get_board that follows another one, with the chat key expired in
\* between and no chat message posted, returns the history the first one
\* returned and leaves the cache holding exactly that history.
C25_SameAfterExpiry ==
  [][\A c \in Clients :
       (Fetched(c) /\ last.set /\ last.gone) =>
         /\ loc[c].history = last.history
         /\ chat' = last.history]_vars

\* C26: with no handler in progress the chat cache holds at most Window
\* entries.
C26_CacheWithinWindow == Idle => Len(chat) <= Window

\* the number of cells of cs that hold symbol x
Count(cs, x) == Cardinality({i \in 1..9 : CellAt(cs, i) = x})

\* C34: the cells field splits into exactly 9 entries, each "_", "X" or
\* "O"; there are as many X as O or one X more; and while winner is empty
\* the turn is X exactly when there are as many X as O.
C34_BoardWellFormed ==
  /\ Len(split(cells)) = 9
  /\ \A i \in 1..9 : split(cells)[i] \in {Tok("_"), Tok("X"), Tok("O")}
  /\ Count(cells, "X") - Count(cells, "O") \in {0, 1}
  /\ turn \in Symbols
  /\ winner = "" => (turn = "X" <=> Count(cells, "X") = Count(cells, "O"))

\* a game in progress after three moves: two X, one O, and O is to move
C34_Witness ==
  /\ winner = "" /\ turn = "O"
  /\ Count(cells, "X") = 2 /\ Count(cells, "O") = 1
  /\ pc["c1"] = "idle"

\* the grid holds a completed line of symbol x
HasLine(x) == \E L \in WinLines : Filled(cells, L, x)

\* C35: winner is X (O) exactly when the grid holds a completed line of X
\* (O), it is draw exactly when the grid is full without a completed line
\* and empty otherwise; the grid never holds lines of both symbols.
C35_WinnerAgreesWithCells ==
  /\ winner \in {"", "X", "O", "draw"}
  /\ \A x \in Symbols : winner = x <=> HasLine(x)
  /\ winner = "draw" <=> (FullGrid(cells) /\ \A x \in Symbols : ~HasLine(x))
  /\ ~(HasLine("X") /\ HasLine("O"))

\* a full grid without a line and the winner field set to draw
C35_Witness ==
  /\ winner = "draw" /\ FullGrid(cells)
  /\ ~HasLine("X") /\ ~HasLine("O")
  /\ pc["c1"] = "idle"

\* the positions of a reader inside the get_board and chat handlers
ReadOnlyPcs == {"get_specs", "get_exists", "get_hit", "get_miss", "get_push",
                "get_expire", "get_reply",
                "chat_push", "chat_trim", "chat_expire", "chat_publish"}
\* this step is a step of the get_board, chat or subscribe handler of c
ReadOnlyStep(c) ==
  \/ pc[c] \in ReadOnlyPcs \/ pc'[c] \in ReadOnlyPcs
  \/ pc[c] = "idle" /\ pc'[c] = "idle" /\ pubsub'[c] # pubsub[c]
\* this step is a seat or queue write of rotation r
RotWrites(r) ==
  /\ rot[r].pc \in {"pushX", "pushO", "popX", "popO", "setSeats"}
  /\ rot'[r].pc # rot[r].pc

\* C33: no step of a get_board, chat or subscribe handler changes cells,
\* turn, winner, the seats or the queue; cells, turn and winner change only
\* in a run of the move script or in the reset of a rotation, the seats
\* only in a Join or a rotation, the queue only in a Join, a rotation or
\* the start of a close.
C33_OnlyOwnersWrite ==
  [][/\ \A c \in Clients :
          ReadOnlyStep(c) => UNCHANGED <<boardVars, seatVars, queue>>
     /\ boardVars' # boardVars => (ResetStep \/ \E c \in Clients : Evaluated(c))
     /\ seatVars' # seatVars =>
          \/ \E c \in Clients : Assigned(c)
          \/ \E r \in RotIds : RotWrites(r)
     /\ queue' # queue =>
          \/ \E c \in Clients : Assigned(c) \/ CloseStarts(c)
          \/ \E r \in RotIds : RotWrites(r)]_vars

\* a game is on between A and B; the guest has subscribed, has posted a
\* chat message and is inside a get_board that found the chat cache
C33_Witness ==
  /\ playerXName = "A" /\ playerOName = "B" /\ Count(cells, "X") = 1
  /\ pubsub[Guest] = "open" /\ chat # <<>> /\ pc[Guest] = "get_reply"
  /\ loc[Guest].history = chat

\* x stands before y in sequence s
Before(s, x, y) == \E i, j \in 1..Len(s) : i < j /\ s[i] = x /\ s[j] = y

\* C40: two chat entries that stand in one order in the file stand in the
\* same order in the cache and in what the channel has delivered.
C40_SameOrderEverywhere ==
  \A c, d \in Talkers :
    LET x == ChatMsg(Author, Says[c])
        y == ChatMsg(Author, Says[d])
    IN Before(disk, x, y) =>
         /\ ~Before(chat, y, x)
         /\ ~Before(Held(Observer), y, x)

\* C37: once close has released the outbound buffer of a connection,
\* nothing is sent on it any more, by the relay or by a handler (the writer
\* may still drain it), and the connection stays released: the
\* cancellation signal and the buffer are released once.
C37_NoSendAfterRelease ==
  [][\A c \in Clients :
       pc[c] = "done" => /\ pc'[c] = "done"
                         /\ Len(send'[c]) <= Len(send[c])
                         /\ closed'[c]]_vars

\* a relay that received a message before the close hands it to safeSend
\* after the buffer was released
C37_Witness ==
  \E c \in Clients : pc[c] = "done" /\ held[c] # NoMsg /\ Len(send[c]) < SendCap

\* the connection is closed and no other connection carries its name
Gone(c) ==
  /\ pc[c] = "done"
  /\ name[c] # ""
  /\ \A d \in Clients \ {c} : name[d] # name[c]

\* how often name n stands in the queue q
Occurs(q, n) == Cardinality({i \in DOMAIN q : q[i] = n})

\* C39: after a connection has closed, and while no connection joins under
\* its name, no step inserts the name into the queue and no step assigns
\* it to a seat, also when it held a seat when it closed.
C39_ClosedNameStaysOut ==
  [][\A c \in Clients :
       Gone(c) /\ Gone(c)' =>
         /\ Occurs(queue', name[c]) <= Occurs(queue, name[c])
         /\ (playerXName' = name[c] => playerXName = name[c])
         /\ (playerOName' = name[c] => playerOName = name[c])]_vars

\* rotation r has been started and its grid reset is still to come
PreReset == {"sleep", "getO", "pushX", "pushO", "popX", "popO", "setSeats", "reset"}
Outstanding == {r \in RotIds : rot[r].pc \in PreReset}
\* the rotations outstanding, with those a handler is about to start
Due == Cardinality(Outstanding) + Cardinality({c \in Clients : Ended(c)})

\* C36: at any time at most one rotation is outstanding, that is started
\* (or about to be, its game-ending move accepted) with its grid reset
\* still to come: exactly one while winner is non-empty and none while it
\* is empty; and from the game-ending move on cells, turn and winner
\* change only by the grid reset of that rotation.
C36_OneRotationOutstanding ==
  [][/\ Due' = (IF winner' # "" THEN 1 ELSE 0)
     /\ (winner # "" /\ boardVars' # boardVars) =>
          \E r \in RotIds : /\ Outstanding = {r}
                            /\ rot[r].pc = "reset"
                            /\ rot'[r].pc = "snapshot"]_vars

\* the next game has ended and its rotation sleeps while the rotation of
\* the game before, its grid reset done, has not yet published
C36_Witness ==
  \E r, q \in RotIds :
    /\ rot[r].pc = "sleep" /\ winner # ""
    /\ rot[q].pc \in {"snapshot", "publish", "specsRead", "specsPub"}

\* the deliveries in s that carry the board
BoardEvents(s) == SelectSeq(s, LAMBDA e : e.type \in {"move_made", "board_state"})

\* cells, turn and winner carried by a move_made or a board_state
Carried(e) ==
  IF e.type = "move_made"
    THEN [cells |-> e.cells, turn |-> e.turn, winner |-> e.winner]
    ELSE [cells |-> e.board.cells, turn |-> e.board.turn, winner |-> e.board.winner]

\* C38: whenever no handler and no rotation is in progress, the newest
\* board-carrying event published on the channel (seen in the watching
\* connection's subscription, which holds the newest delivery) carries the
\* cells, turn and winner of the stored record.
C38_LastPublishedIsStored ==
  Quiet =>
    LET s == BoardEvents(inbox[Observer])
    IN  s # <<>> => Carried(s[Len(s)]) = Board

\* the reader of connection c has left its loop
ReaderGone(c) == pc[c] \in ClosePcs \cup {"done"}

\* C31: the reader of a connection reads the next message only when the
\* handler of the one before has completed, so that nothing of it is left
\* to do (its locals are released); a handler in progress is left only by
\* its own steps, never by a new message; and once the decoding of a
\* message has failed the connection handles nothing more.
C31_OneMessageAtATime ==
  [][\A c \in Clients :
       /\ pc[c] = "idle" => loc[c] = NoLoc
       /\ pc'[c] = "idle" => loc'[c] = NoLoc
       /\ ReaderGone(c) => /\ ReaderGone(c)'
                           /\ loc'[c] = loc[c]
                           /\ name'[c] = name[c]]_vars

\* one connection is closed and another one, its first move handled to the
\* end, is handling its second
C31_Witness ==
  /\ pc["c2"] = "done"
  /\ pc["c1"] = "move_reply" /\ loc["c1"].pos = 4 /\ loc["c1"].res.status = "ok"
  /\ CellAt(cells, 1) = "X"

\* message e reaches every open subscription and nothing else changes there
Reaches(e) ==
  \A c \in Clients :
    inbox'[c] = IF pubsub[c] = "open" THEN Append(inbox[c], e) ELSE inbox[c]

\* the board record after a rotation: the seats as they stand, the grid reset
Refreshed ==
  [cells |-> EmptyCells, turn |-> "X", winner |-> "",
   playerXName |-> playerXName, playerOName |-> playerOName]

\* C32: a rotation that runs without interference publishes, after its
\* grid reset, first one board_state with the seats it has written and the
\* reset grid, then one spectators_update with the queue it has left, and
\* publishes nothing else.
C32_RotationPublishesBoth ==
  [][\A r \in RotIds :
       /\ (rot[r].pc = "publish" /\ rot'[r] # rot[r]) =>
            /\ rot'[r].pc = "specsRead"
            /\ Reaches(BoardState(Refreshed))
       /\ (rot[r].pc = "specsPub" /\ rot'[r] # rot[r]) =>
            /\ rot'[r].pc = "free"
            /\ Reaches(SpectatorsUpdate(queue))
       /\ (rot[r].pc \notin {"free", "publish", "specsPub"} /\ rot'[r] # rot[r]) =>
            inbox' = inbox]_vars

\* the two publications of a rotation that changed seats and queue wait
\* in a subscription
C32_Witness ==
  \E c \in Clients :
    /\ inbox[c] = <<BoardState(Refreshed), SpectatorsUpdate(queue)>>
    /\ playerXName = "C" /\ playerOName = "A" /\ queue = <<"B">>
    /\ \A r \in RotIds : rot[r].pc = "free"

====
